---------------------------- MODULE Spec2Model ----------------------------
(***************************************************************************)
(* A model of shellbeats (src/shellbeats.c): the playlist persistence      *)
(* codec, the in-memory library and its on-disk files, the playback        *)
(* session, the mpv IPC channel and the key dispatch of the main loop.     *)
(*                                                                         *)
(* Strings are sequences of one-character strings, so that the text the    *)
(* program writes to a file and scans back is modelled byte for byte.      *)
(* Indices held in the state (playing_index, playlist_selected, ...) are   *)
(* the program's 0-based C indices; a TLA+ sequence is read at index + 1.  *)
(***************************************************************************)
EXTENDS Integers, Sequences, FiniteSets, TLC

VARIABLES
  st,     \* AppState (src/shellbeats.c:55-93), the fields the core uses
  fs,     \* the files under ~/.shellbeats: the index and one file per playlist
  mpv,    \* mpv_pid, mpv_ipc_fd and the player's side of the socket
  pc,     \* where the program is: the main loop's two halves, or a codec step
  last,   \* the last step the program took: operation, argument, result, commands sent
  env     \* what the user types and what the search collaborator returns

vars == <<st, fs, mpv, pc, last, env>>

---------------------------------------------------------------------------
(* Bounds of the model.                                                    *)

\* MAX_PLAYLISTS is 50 and MAX_PLAYLIST_ITEMS is 500 in the source; the model
\* runs the same comparisons against smaller capacities.
MAX_PLAYLISTS == 3

MAX_PLAYLIST_ITEMS == 2

\* rows - 7 of the terminal: how far PgUp / PgDn move the selection.
ListHeight == 2

\* The grace interval of the track-end check, in seconds.
GRACE == 3

---------------------------------------------------------------------------
(* Characters and C string helpers.                                        *)

Q == "\""

BS == "\\"

NL == "\n"

CR == "\r"

TAB == "\t"

\* A NULL char pointer: no sequence of one-character strings equals it.
NULL == <<"NULL">>

UPPER ==
  <<"A", "B", "C", "D", "E", "F", "G", "H", "I", "J", "K", "L", "M",
    "N", "O", "P", "Q", "R", "S", "T", "U", "V", "W", "X", "Y", "Z">>

LOWER ==
  <<"a", "b", "c", "d", "e", "f", "g", "h", "i", "j", "k", "l", "m",
    "n", "o", "p", "q", "r", "s", "t", "u", "v", "w", "x", "y", "z">>

DIGITS == {"0", "1", "2", "3", "4", "5", "6", "7", "8", "9"}

isalnum(c) ==
  \/ c \in DIGITS
  \/ \E i \in 1..26 : UPPER[i] = c \/ LOWER[i] = c

tolower(c) ==
  IF \E i \in 1..26 : UPPER[i] = c
  THEN LOWER[CHOOSE i \in 1..26 : UPPER[i] = c]
  ELSE c

Min(S) == CHOOSE x \in S : \A y \in S : x <= y

\* strstr / strchr from position p (1-based); 0 when there is no match.
strstr(h, n, p) ==
  LET C == {i \in p..(Len(h) - Len(n) + 1) : SubSeq(h, i, i + Len(n) - 1) = n}
  IN  IF C = {} THEN 0 ELSE Min(C)

strchr(h, c, p) ==
  LET C == {i \in p..Len(h) : h[i] = c}
  IN  IF C = {} THEN 0 ELSE Min(C)

\* A comparison that tells upper case from lower case.
strcmp_eq(a, b) == a = b

strcasecmp_eq(a, b) ==
  /\ Len(a) = Len(b)
  /\ \A i \in 1..Len(a) : tolower(a[i]) = tolower(b[i])

---------------------------------------------------------------------------
(* The text the program writes.                                            *)

IndexHead ==
  <<"{", NL, " ", " ", Q, "p", "l", "a", "y", "l", "i", "s", "t", "s", Q,
    ":", " ", "[", NL>>

IndexEntryA ==
  <<" ", " ", " ", " ", "{", Q, "n", "a", "m", "e", Q, ":", " ", Q>>

IndexEntryB ==
  <<Q, ",", " ", Q, "f", "i", "l", "e", "n", "a", "m", "e", Q, ":", " ",
    Q>>

EntryEnd ==
  <<Q, "}">>

ListTail ==
  <<" ", " ", "]", NL, "}", NL>>

PlaylistHeadA ==
  <<"{", NL, " ", " ", Q, "n", "a", "m", "e", Q, ":", " ", Q>>

PlaylistHeadB ==
  <<Q, ",", NL, " ", " ", Q, "s", "o", "n", "g", "s", Q, ":", " ", "[",
    NL>>

SongEntryA ==
  <<" ", " ", " ", " ", "{", Q, "t", "i", "t", "l", "e", Q, ":", " ", Q>>

SongEntryB ==
  <<Q, ",", " ", Q, "v", "i", "d", "e", "o", "_", "i", "d", Q, ":", " ",
    Q>>

EmptyIndex ==
  <<"{", Q, "p", "l", "a", "y", "l", "i", "s", "t", "s", Q, ":", "[",
    "]", "}", NL>>

KeyName ==
  <<"n", "a", "m", "e">>

KeyFilename ==
  <<"f", "i", "l", "e", "n", "a", "m", "e">>

KeyTitle ==
  <<"t", "i", "t", "l", "e">>

KeyVideoId ==
  <<"v", "i", "d", "e", "o", "_", "i", "d">>

LabelSongs ==
  <<Q, "s", "o", "n", "g", "s", Q>>

LabelPlaylists ==
  <<Q, "p", "l", "a", "y", "l", "i", "s", "t", "s", Q>>

DotJson ==
  <<".", "j", "s", "o", "n">>

Unknown ==
  <<"U", "n", "k", "n", "o", "w", "n">>

---------------------------------------------------------------------------
(* The persistence codec.                                                  *)

EscapeChar(c) ==
  IF c = Q \/ c = BS THEN <<BS, c>>
  ELSE IF c = NL THEN <<BS, "n">>
  ELSE IF c = CR THEN <<BS, "r">>
  ELSE IF c = TAB THEN <<BS, "t">>
  ELSE <<c>>

RECURSIVE json_escape_string(_)
json_escape_string(s) ==
  IF s = NULL \/ s = <<>> THEN <<>>
  ELSE EscapeChar(Head(s)) \o json_escape_string(Tail(s))

\* while (*p && (*p == ' ' || *p == ':' || *p == '\t')) p++;
RECURSIVE SkipSeparators(_, _)
SkipSeparators(json, p) ==
  IF p <= Len(json) /\ json[p] \in {" ", ":", TAB}
  THEN SkipSeparators(json, p + 1)
  ELSE p

\* while (*p && *p != '"') { if (*p == '\\' && *(p+1)) p++; p++; }
RECURSIVE ScanToQuote(_, _)
ScanToQuote(json, p) ==
  IF p > Len(json) \/ json[p] = Q THEN p
  ELSE IF json[p] = BS /\ p + 1 <= Len(json) THEN ScanToQuote(json, p + 2)
  ELSE ScanToQuote(json, p + 1)

UnescapeChar(c) ==
  IF c = "n" THEN NL
  ELSE IF c = "r" THEN CR
  ELSE IF c = "t" THEN TAB
  ELSE c

RECURSIVE Unescape(_, _)
Unescape(raw, i) ==
  IF i > Len(raw) THEN <<>>
  ELSE IF raw[i] = BS /\ i + 1 <= Len(raw)
       THEN <<UnescapeChar(raw[i + 1])>> \o Unescape(raw, i + 2)
       ELSE <<raw[i]>> \o Unescape(raw, i + 1)

json_get_string(json, key) ==
  LET pattern == <<Q>> \o key \o <<Q>>
      found   == strstr(json, pattern, 1)
      p       == SkipSeparators(json, found + Len(pattern))
      pend    == ScanToQuote(json, p + 1)
  IN  IF found = 0 THEN NULL
      ELSE IF p > Len(json) \/ json[p] # Q THEN NULL
      ELSE Unescape(SubSeq(json, p + 1, pend - 1), 1)

sanitize_char(c) ==
  IF isalnum(c) \/ c = "-" \/ c = "_" THEN <<tolower(c)>>
  ELSE IF c = " " THEN <<"_">>
  ELSE <<>>

RECURSIVE sanitize_stem(_)
sanitize_stem(name) ==
  IF name = <<>> THEN <<>>
  ELSE sanitize_char(Head(name)) \o sanitize_stem(Tail(name))

sanitize_filename(name) == sanitize_stem(name) \o DotJson

---------------------------------------------------------------------------
(* Files.  fs.index is the text of playlists.json (NoFile when missing);   *)
(* fs.files maps the name of each existing file of the playlists           *)
(* directory to its text.                                                  *)

NoFile == <<"NOFILE">>

file_exists(f, fname) == fname \in DOMAIN f.files

WriteFile(f, fname, text) ==
  [f EXCEPT !.files =
     [n \in (DOMAIN f.files) \cup {fname} |->
        IF n = fname THEN text ELSE f.files[n]]]

unlink(f, fname) ==
  [f EXCEPT !.files = [n \in (DOMAIN f.files) \ {fname} |-> f.files[n]]]

playlist_count(s) == Len(s.playlists)

\* pl->count of slot idx; a slot at or after playlist_count is zeroed memory.
pl_count(s, idx) ==
  IF idx >= 0 /\ idx < playlist_count(s)
  THEN Len(s.playlists[idx + 1].items)
  ELSE 0

RECURSIVE IndexEntries(_, _)
IndexEntries(pls, i) ==
  IF i > Len(pls) THEN <<>>
  ELSE IndexEntryA \o json_escape_string(pls[i].name)
       \o IndexEntryB \o json_escape_string(pls[i].filename)
       \o EntryEnd \o (IF i < Len(pls) THEN <<",">> ELSE <<>>) \o <<NL>>
       \o IndexEntries(pls, i + 1)

encode_index(pls) == IndexHead \o IndexEntries(pls, 1) \o ListTail

RECURSIVE SongEntries(_, _)
SongEntries(items, i) ==
  IF i > Len(items) THEN <<>>
  ELSE SongEntryA \o json_escape_string(items[i].title)
       \o SongEntryB \o json_escape_string(items[i].video_id)
       \o EntryEnd \o (IF i < Len(items) THEN <<",">> ELSE <<>>) \o <<NL>>
       \o SongEntries(items, i + 1)

\* The playlist's name is printed as it is, without json_escape_string.
encode_playlist(pl) ==
  PlaylistHeadA \o pl.name \o PlaylistHeadB \o SongEntries(pl.items, 1)
  \o ListTail

\* wok: whether fopen(path, "w") succeeds.
save_playlists_index(s, f, wok) ==
  IF ~wok THEN f
  ELSE [f EXCEPT !.index = encode_index(s.playlists)]

save_playlist(s, f, idx, wok) ==
  IF idx < 0 \/ idx >= playlist_count(s) THEN f
  ELSE IF ~wok THEN f
  ELSE WriteFile(f, s.playlists[idx + 1].filename,
                 encode_playlist(s.playlists[idx + 1]))

\* The object scan shared by load_playlist_songs and load_playlists: each
\* object runs from the next '{' to the first '}' after it.
RECURSIVE ParseSongs(_, _, _)
ParseSongs(content, p, acc) ==
  IF Len(acc) >= MAX_PLAYLIST_ITEMS THEN acc
  ELSE
    LET obj_start == strchr(content, "{", p)
        obj_end   == IF obj_start = 0 THEN 0
                     ELSE strchr(content, "}", obj_start)
        obj       == SubSeq(content, obj_start, obj_end)
        title     == json_get_string(obj, KeyTitle)
        video_id  == json_get_string(obj, KeyVideoId)
    IN  IF obj_start = 0 \/ obj_end = 0 THEN acc
        ELSE IF title # NULL /\ video_id # NULL /\ video_id # <<>>
        THEN ParseSongs(content, obj_end + 1,
                        Append(acc, [title |-> title, video_id |-> video_id]))
        ELSE ParseSongs(content, obj_end + 1, acc)

decode_playlist(content) ==
  LET p0 == strstr(content, LabelSongs, 1)
      p1 == IF p0 = 0 THEN 0 ELSE strchr(content, "[", p0)
  IN  IF content = NoFile \/ Len(content) = 0 THEN <<>>
      ELSE IF p0 = 0 \/ p1 = 0 THEN <<>>
      ELSE ParseSongs(content, p1, <<>>)

SetItems(s, idx, items) ==
  [s EXCEPT !.playlists[idx + 1].items = items]

load_playlist_songs(s, f, idx) ==
  IF idx < 0 \/ idx >= playlist_count(s) THEN s
  ELSE IF ~file_exists(f, s.playlists[idx + 1].filename)
       THEN SetItems(s, idx, <<>>)
       ELSE SetItems(s, idx,
                     decode_playlist(f.files[s.playlists[idx + 1].filename]))

RECURSIVE ParsePlaylists(_, _, _)
ParsePlaylists(content, p, acc) ==
  IF Len(acc) >= MAX_PLAYLISTS THEN acc
  ELSE
    LET obj_start == strchr(content, "{", p)
        obj_end   == IF obj_start = 0 THEN 0
                     ELSE strchr(content, "}", obj_start)
        obj       == SubSeq(content, obj_start, obj_end)
        name      == json_get_string(obj, KeyName)
        filename  == json_get_string(obj, KeyFilename)
    IN  IF obj_start = 0 \/ obj_end = 0 THEN acc
        ELSE IF name # NULL /\ filename # NULL /\ name # <<>> /\ filename # <<>>
        THEN ParsePlaylists(content, obj_end + 1,
               Append(acc, [name |-> name, filename |-> filename,
                            items |-> <<>>]))
        ELSE ParsePlaylists(content, obj_end + 1, acc)

decode_index(content) ==
  LET p0 == strstr(content, LabelPlaylists, 1)
      p1 == IF p0 = 0 THEN 0 ELSE strchr(content, "[", p0)
  IN  IF content = NoFile \/ Len(content) = 0 THEN <<>>
      ELSE IF p0 = 0 \/ p1 = 0 THEN <<>>
      ELSE ParsePlaylists(content, p1, <<>>)

load_playlists(s, f) == [s EXCEPT !.playlists = decode_index(f.index)]

---------------------------------------------------------------------------
(* The library store.  Each operation yields the new AppState, the new     *)
(* files and the value the C function returns.                             *)

DigitChar == <<"0", "1", "2", "3", "4", "5", "6", "7", "8", "9">>

\* printf("%d") of a non-negative number.
RECURSIVE itoa(_)
itoa(n) ==
  IF n < 10 THEN <<DigitChar[n + 1]>>
  ELSE itoa(n \div 10) \o <<DigitChar[(n % 10) + 1]>>

HasName(s, name) ==
  \E i \in 1..playlist_count(s) : strcasecmp_eq(s.playlists[i].name, name)

HasFilename(s, filename) ==
  \E i \in 1..playlist_count(s) : s.playlists[i].filename = filename

\* The storage key create_playlist gives a new playlist: on a collision the
\* sanitized name is prefixed with playlist_count and '_'.
new_filename(s, name) ==
  IF HasFilename(s, sanitize_filename(name))
  THEN itoa(playlist_count(s)) \o <<"_">> \o sanitize_filename(name)
  ELSE sanitize_filename(name)

\* wi, wf: whether opening the index file, the playlist file for writing succeeds.
create_playlist(s, f, name, wi, wf) ==
  IF playlist_count(s) >= MAX_PLAYLISTS THEN [st |-> s, fs |-> f, rc |-> -1]
  ELSE IF name = NULL \/ name = <<>> THEN [st |-> s, fs |-> f, rc |-> -1]
  ELSE IF HasName(s, name) THEN [st |-> s, fs |-> f, rc |-> -2]
  ELSE
    LET idx == playlist_count(s)
        s1  == [s EXCEPT !.playlists =
                  Append(@, [name |-> name, filename |-> new_filename(s, name),
                             items |-> <<>>])]
        f1  == save_playlists_index(s1, f, wi)
    IN  [st |-> s1, fs |-> save_playlist(s1, f1, idx, wf), rc |-> idx]

\* A removal that drops the last element whichever was asked for.
RemoveLast(seq, i) == SubSeq(seq, 1, Len(seq) - 1)

RemoveAt(seq, i) == SubSeq(seq, 1, i - 1) \o SubSeq(seq, i + 1, Len(seq))

delete_playlist(s, f, idx, wi) ==
  IF idx < 0 \/ idx >= playlist_count(s) THEN [st |-> s, fs |-> f, rc |-> FALSE]
  ELSE
    LET f1 == unlink(f, s.playlists[idx + 1].filename)
        s1 == [s EXCEPT !.playlists = RemoveAt(@, idx + 1)]
    IN  [st |-> s1, fs |-> save_playlists_index(s1, f1, wi), rc |-> TRUE]

\* A duplicate check that finds nothing.
NoVideoId(items, video_id) == FALSE

HasVideoId(items, video_id) ==
  \E i \in 1..Len(items) : items[i].video_id = video_id

\* A NULL Song pointer.
NoSong == [title |-> NULL, video_id |-> NULL]

\* song is a Song record, or NoSong.
add_song_to_playlist(s, f, playlist_idx, song, wf) ==
  IF playlist_idx < 0 \/ playlist_idx >= playlist_count(s)
  THEN [st |-> s, fs |-> f, rc |-> FALSE]
  ELSE IF song = NoSong \/ song.video_id = NULL
  THEN [st |-> s, fs |-> f, rc |-> FALSE]
  ELSE
    LET s1    == IF pl_count(s, playlist_idx) = 0
                 THEN load_playlist_songs(s, f, playlist_idx)
                 ELSE s
        items == s1.playlists[playlist_idx + 1].items
        item  == [title    |-> IF song.title = NULL THEN Unknown ELSE song.title,
                  video_id |-> song.video_id]
        s2    == SetItems(s1, playlist_idx, Append(items, item))
    IN  IF Len(items) >= MAX_PLAYLIST_ITEMS
        THEN [st |-> s1, fs |-> f, rc |-> FALSE]
        ELSE IF HasVideoId(items, song.video_id)
        THEN [st |-> s1, fs |-> f, rc |-> FALSE]
        ELSE [st |-> s2, fs |-> save_playlist(s2, f, playlist_idx, wf),
              rc |-> TRUE]

\* A removal that is undone when the file cannot be written.
remove_song_rollback(s, f, playlist_idx, song_idx, wf) ==
  IF playlist_idx < 0 \/ playlist_idx >= playlist_count(s)
  THEN [st |-> s, fs |-> f, rc |-> FALSE]
  ELSE IF song_idx < 0 \/ song_idx >= pl_count(s, playlist_idx)
  THEN [st |-> s, fs |-> f, rc |-> FALSE]
  ELSE IF ~wf THEN [st |-> s, fs |-> f, rc |-> FALSE]
  ELSE
    LET s1 == SetItems(s, playlist_idx,
                       RemoveAt(s.playlists[playlist_idx + 1].items,
                                song_idx + 1))
    IN  [st |-> s1, fs |-> save_playlist(s1, f, playlist_idx, wf), rc |-> TRUE]

remove_song_from_playlist(s, f, playlist_idx, song_idx, wf) ==
  IF playlist_idx < 0 \/ playlist_idx >= playlist_count(s)
  THEN [st |-> s, fs |-> f, rc |-> FALSE]
  ELSE IF song_idx < 0 \/ song_idx >= pl_count(s, playlist_idx)
  THEN [st |-> s, fs |-> f, rc |-> FALSE]
  ELSE
    LET s1 == SetItems(s, playlist_idx,
                       RemoveAt(s.playlists[playlist_idx + 1].items,
                                song_idx + 1))
    IN  [st |-> s1, fs |-> save_playlist(s1, f, playlist_idx, wf), rc |-> TRUE]

---------------------------------------------------------------------------
(* The mpv IPC client.  mpv.pid and mpv.ipc_fd are the program's globals;  *)
(* mpv.sock is whether the socket file exists, mpv.up whether a player     *)
(* process is listening on it, and mpv.chan the kinds of events written by *)
(* the player and not yet read: "eof" (end-file, reason eof), "stop"       *)
(* (end-file, reason stop or error), "prop" (any other message).           *)
(* Each operation yields the new mpv state and the commands it wrote.      *)

UrlPrefix ==
  <<"h", "t", "t", "p", "s", ":", "/", "/", "w", "w", "w", ".", "y", "o",
    "u", "t", "u", "b", "e", ".", "c", "o", "m", "/", "w", "a", "t", "c",
    "h", "?", "v", "=">>

\* snprintf(url, ..., "https://www.youtube.com/watch?v=%s", video_id)
Url(video_id) == UrlPrefix \o video_id

\* The descriptor socket() returns for the channel.
ConnectedFd == 3

Events == {"eof", "stop", "prop"}

\* The texts in which mpv_check_track_end finds both "event":"end-file" and
\* "reason":"eof".
EofKinds == {"eof", "eof_grace"}

CmdObserve == [cmd |-> "observe_property", arg |-> <<>>]

CmdPause == [cmd |-> "cycle pause", arg |-> <<>>]

CmdStop == [cmd |-> "stop", arg |-> <<>>]

CmdQuit == [cmd |-> "quit", arg |-> <<>>]

mpv_disconnect(m) ==
  IF m.ipc_fd >= 0 THEN [m EXCEPT !.ipc_fd = -1, !.chan = {}] ELSE m

mpv_connect(m) ==
  IF m.ipc_fd >= 0 THEN [mpv |-> m, ok |-> TRUE, sent |-> <<>>]
  ELSE IF ~m.sock THEN [mpv |-> m, ok |-> FALSE, sent |-> <<>>]
  ELSE IF ~m.up THEN [mpv |-> m, ok |-> FALSE, sent |-> <<>>]
  ELSE [mpv |-> [m EXCEPT !.ipc_fd = ConnectedFd], ok |-> TRUE,
        sent |-> <<CmdObserve>>]

\* Without a connection the one-shot connect meets the same socket and fails
\* as mpv_connect did: nothing is written.
mpv_send_command(m, cmd) ==
  LET c == mpv_connect(m)
  IN  IF ~c.ok THEN [mpv |-> m, sent |-> <<>>]
      ELSE [mpv |-> c.mpv, sent |-> c.sent \o <<cmd>>]

RECURSIVE EscapeUrl(_)
EscapeUrl(url) ==
  IF url = <<>> THEN <<>>
  ELSE (IF Head(url) = Q \/ Head(url) = BS THEN <<BS, Head(url)>>
        ELSE <<Head(url)>>) \o EscapeUrl(Tail(url))

mpv_load_url(m, url) ==
  mpv_send_command(m, [cmd |-> "loadfile", arg |-> EscapeUrl(url)])

mpv_toggle_pause(m) == mpv_send_command(m, CmdPause)

mpv_stop_playback(m) == mpv_send_command(m, CmdStop)

\* launch: "ready" when the forked player creates its socket within the 100
\* polls, "timeout" when it does not.
mpv_start_if_needed(m, launch) ==
  LET c  == mpv_connect(m)
      m1 == mpv_disconnect([m EXCEPT !.sock = FALSE, !.up = FALSE])
      m2 == [m1 EXCEPT !.pid = 1]
  IN  IF m.sock /\ c.ok THEN [mpv |-> c.mpv, sent |-> c.sent]
      ELSE IF launch = "ready"
      THEN [mpv  |-> [m2 EXCEPT !.sock = TRUE, !.up = TRUE,
                                !.ipc_fd = ConnectedFd],
            sent |-> <<CmdObserve>>]
      ELSE [mpv |-> m2, sent |-> <<>>]

\* kill(pid, SIGTERM), listed among what was sent in the order of the calls.
Kill(pid) == [cmd |-> "kill SIGTERM", arg |-> <<pid>>]

\* A quit that leaves the socket file where it is.
mpv_quit_keep(m) ==
  LET a  == mpv_send_command(m, CmdQuit)
      m1 == mpv_disconnect(a.mpv)
  IN  [mpv  |-> [m1 EXCEPT !.pid = -1, !.up = FALSE],
       sent |-> a.sent \o (IF m.pid > 0 THEN <<Kill(m.pid)>> ELSE <<>>)]

mpv_quit(m) ==
  LET a  == mpv_send_command(m, CmdQuit)
      m1 == mpv_disconnect(a.mpv)
  IN  [mpv  |-> [m1 EXCEPT !.pid = -1, !.sock = FALSE, !.up = FALSE],
       sent |-> a.sent \o (IF m.pid > 0 THEN <<Kill(m.pid)>> ELSE <<>>)]

\* errno_again: when read() returns 0 or -1, whether errno holds EAGAIN.
\* One read takes everything buffered (the buffer stays under 4095 bytes).
\* A read that leaves what it read in the socket buffer.
mpv_check_track_end_peek(m, errno_again) ==
  [mpv |-> m, rc |-> m.ipc_fd >= 0 /\ m.chan \cap EofKinds # {}]

mpv_check_track_end(m, errno_again) ==
  IF m.ipc_fd < 0 THEN [mpv |-> m, rc |-> FALSE]
  ELSE IF m.chan = {}
  THEN [mpv |-> IF errno_again THEN m ELSE mpv_disconnect(m), rc |-> FALSE]
  ELSE [mpv |-> [m EXCEPT !.chan = {}], rc |-> m.chan \cap EofKinds # {}]

---------------------------------------------------------------------------
(* Search and playback.                                                    *)

search_count(s) == Len(s.search_results)

free_search_results(s) ==
  [s EXCEPT !.search_results = <<>>, !.search_selected = 0]

\* output: the songs parsed from the lines yt-dlp printed.
run_search(s, output) ==
  [free_search_results(s) EXCEPT !.search_results = output,
                                 !.search_selected = 0]

\* A play of a search result that leaves playing_playlist_idx as it was.
play_search_result_source(s, m, idx, launch) ==
  IF idx < 0 \/ idx >= search_count(s) THEN [st |-> s, mpv |-> m, sent |-> <<>>]
  ELSE
    LET a == mpv_start_if_needed(m, launch)
        b == mpv_load_url(a.mpv, Url(s.search_results[idx + 1].video_id))
    IN  [st   |-> [s EXCEPT !.playing_index = idx,
                            !.playing_from_playlist = FALSE,
                            !.paused = FALSE,
                            !.elapsed = 0],
         mpv  |-> b.mpv,
         sent |-> a.sent \o b.sent]

\* A play that leaves the paused flag as it was.
play_search_result_paused(s, m, idx, launch) ==
  IF idx < 0 \/ idx >= search_count(s) THEN [st |-> s, mpv |-> m, sent |-> <<>>]
  ELSE
    LET a == mpv_start_if_needed(m, launch)
        b == mpv_load_url(a.mpv, Url(s.search_results[idx + 1].video_id))
    IN  [st   |-> [s EXCEPT !.playing_index = idx,
                            !.playing_from_playlist = FALSE,
                            !.playing_playlist_idx = -1,
                            !.elapsed = 0],
         mpv  |-> b.mpv,
         sent |-> a.sent \o b.sent]

play_search_result(s, m, idx, launch) ==
  IF idx < 0 \/ idx >= search_count(s) THEN [st |-> s, mpv |-> m, sent |-> <<>>]
  ELSE
    LET a == mpv_start_if_needed(m, launch)
        b == mpv_load_url(a.mpv, Url(s.search_results[idx + 1].video_id))
    IN  [st   |-> [s EXCEPT !.playing_index = idx,
                            !.playing_from_playlist = FALSE,
                            !.playing_playlist_idx = -1,
                            !.paused = FALSE,
                            !.elapsed = 0],
         mpv  |-> b.mpv,
         sent |-> a.sent \o b.sent]

play_playlist_song(s, m, playlist_idx, song_idx, launch) ==
  IF playlist_idx < 0 \/ playlist_idx >= playlist_count(s)
  THEN [st |-> s, mpv |-> m, sent |-> <<>>]
  ELSE IF song_idx < 0 \/ song_idx >= pl_count(s, playlist_idx)
  THEN [st |-> s, mpv |-> m, sent |-> <<>>]
  ELSE
    LET a == mpv_start_if_needed(m, launch)
        b == mpv_load_url(a.mpv,
               Url(s.playlists[playlist_idx + 1].items[song_idx + 1].video_id))
    IN  [st   |-> [s EXCEPT !.playing_index = song_idx,
                            !.playing_from_playlist = TRUE,
                            !.playing_playlist_idx = playlist_idx,
                            !.paused = FALSE,
                            !.elapsed = 0],
         mpv  |-> b.mpv,
         sent |-> a.sent \o b.sent]

\* An advance that wraps around to the first item after the last.
play_next_wrap(s, m, launch) ==
  LET n    == IF s.playing_from_playlist /\ s.playing_playlist_idx >= 0
              THEN pl_count(s, s.playing_playlist_idx)
              ELSE search_count(s)
      next == IF s.playing_index + 1 < n THEN s.playing_index + 1 ELSE 0
  IN  IF s.playing_from_playlist /\ s.playing_playlist_idx >= 0
      THEN play_playlist_song(s, m, s.playing_playlist_idx, next, launch)
      ELSE play_search_result(s, m, next, launch)

play_next(s, m, launch) ==
  LET next == s.playing_index + 1
  IN  IF s.playing_from_playlist /\ s.playing_playlist_idx >= 0
      THEN IF next < pl_count(s, s.playing_playlist_idx)
           THEN LET r == play_playlist_song(s, m, s.playing_playlist_idx,
                                            next, launch)
                IN  [r EXCEPT !.st.playlist_song_selected = next]
           ELSE [st |-> s, mpv |-> m, sent |-> <<>>]
      ELSE IF search_count(s) > 0 /\ next < search_count(s)
           THEN LET r == play_search_result(s, m, next, launch)
                IN  [r EXCEPT !.st.search_selected = next]
           ELSE [st |-> s, mpv |-> m, sent |-> <<>>]

play_prev(s, m, launch) ==
  LET prev == s.playing_index - 1
  IN  IF s.playing_from_playlist /\ s.playing_playlist_idx >= 0
      THEN IF prev >= 0
           THEN LET r == play_playlist_song(s, m, s.playing_playlist_idx,
                                            prev, launch)
                IN  [r EXCEPT !.st.playlist_song_selected = prev]
           ELSE [st |-> s, mpv |-> m, sent |-> <<>>]
      ELSE IF search_count(s) > 0 /\ prev >= 0
           THEN LET r == play_search_result(s, m, prev, launch)
                IN  [r EXCEPT !.st.search_selected = prev]
           ELSE [st |-> s, mpv |-> m, sent |-> <<>>]

---------------------------------------------------------------------------
(* The main loop.  One iteration is two steps: the track-end check         *)
(* (pc = "check") and then getch() with the handling of the key it         *)
(* returned (pc = "input").  A handler that prompts (get_string_input)     *)
(* blocks the loop; the clock and the player go on meanwhile, which is the *)
(* interleaving of Tick and MpvEmit before the handler's step.             *)

\* What last.status holds after a step that did not write status: the
\* screen goes on showing the text it showed.
Kept == <<"(kept)">>

\* The title snprintf prints for element i of items; "?" stands for a NULL
\* title and for what is read at an index past the items.
TitleAt(items, i) ==
  IF i >= 0 /\ i < Len(items) /\ items[i + 1].title # NULL
  THEN items[i + 1].title
  ELSE <<"?">>

NameAt(s, i) ==
  IF i >= 0 /\ i < playlist_count(s) THEN s.playlists[i + 1].name ELSE <<>>

\* A status that names the track before the one the session is at.
AutoStatusBefore(s) ==
  IF s.playing_from_playlist /\ s.playing_playlist_idx >= 0
  THEN <<"Auto-playing: %s",
         TitleAt(s.playlists[s.playing_playlist_idx + 1].items,
                 s.playing_index - 1)>>
  ELSE <<"Auto-playing: %s", TitleAt(s.search_results, s.playing_index - 1)>>

\* What the track-end check writes to status after play_next left session
\* s: lines 1541-1556.
AutoStatus(s) ==
  IF s.playing_index >= 0
  THEN IF s.playing_from_playlist /\ s.playing_playlist_idx >= 0
       THEN IF s.playing_index < pl_count(s, s.playing_playlist_idx)
            THEN <<"Auto-playing: %s",
                   TitleAt(s.playlists[s.playing_playlist_idx + 1].items,
                           s.playing_index)>>
            ELSE Kept
       ELSE IF s.playing_index < search_count(s)
            THEN <<"Auto-playing: %s",
                   TitleAt(s.search_results, s.playing_index)>>
            ELSE Kept
  ELSE <<"Playback finished">>

\* What the handler of a key writes to status: the snprintf(status, ...) of
\* the branch it took from state s0 to state s with result rc.
KeyStatus(op, arg, rc, s0, s) ==
  IF op = "escape"
  THEN (IF s0.view = "SEARCH" THEN Kept
        ELSE IF s0.view = "ADD_TO_PLAYLIST" THEN <<"Cancelled">>
        ELSE <<>>)
  ELSE IF op = "toggle_pause"
  THEN (IF s.paused = s0.paused THEN Kept
        ELSE IF s.paused THEN <<"Paused">> ELSE <<"Playing">>)
  ELSE IF op = "play_next" THEN <<"Next track">>
  ELSE IF op = "play_prev" THEN <<"Previous track">>
  ELSE IF op = "stop" THEN <<"Playback stopped">>
  ELSE IF op = "play"
  THEN (IF s0.view = "SEARCH"
        THEN <<"Playing: %s", TitleAt(s0.search_results, s0.search_selected)>>
        ELSE <<"Playing: %s",
               TitleAt(s0.playlists[s0.current_playlist_idx + 1].items,
                       s0.playlist_song_selected)>>)
  ELSE IF op = "run_search"
  THEN (IF rc = 0 THEN <<"No results for: %s">>
        ELSE <<"Found %d results for: %s", rc>>)
  ELSE IF op = "load_playlists" THEN <<"Playlists">>
  ELSE IF op = "select_playlist" THEN <<"Select playlist">>
  ELSE IF op = "create_playlist"
  THEN (IF rc >= 0
        THEN (IF s0.view = "ADD_TO_PLAYLIST"
              THEN (IF s0.song_to_add >= 0
                    THEN <<"Created '%s' and added song", arg>>
                    ELSE <<"Created: %s", arg>>)
              ELSE <<"Created playlist: %s", arg>>)
        ELSE IF rc = -2 THEN <<"Playlist already exists: %s", arg>>
        ELSE <<"Failed to create playlist">>)
  ELSE IF op = "open_playlist"
  THEN <<"Opened: %s", NameAt(s, s.current_playlist_idx)>>
  ELSE IF op = "delete_playlist"
  THEN (IF rc THEN <<"Deleted playlist">> ELSE <<"Failed to delete">>)
  ELSE IF op = "remove_song_from_playlist"
  THEN (IF rc
        THEN <<"Removed: %s",
               TitleAt(s0.playlists[s0.current_playlist_idx + 1].items,
                       s0.playlist_song_selected)>>
        ELSE <<"Failed to remove">>)
  ELSE IF op = "add_song_to_playlist"
  THEN (IF rc THEN <<"Added to: %s", NameAt(s0, s0.add_to_playlist_selected)>>
        ELSE <<"Already in playlist or failed">>)
  ELSE Kept

\* The handler's effect; the loop then draws the screen (draw_ui, line
\* 1967) with the state and the status it leaves.
Commit(s, f, m, op, arg, rc, sent) ==
  /\ st' = s
  /\ fs' = f
  /\ mpv' = m
  /\ last' = [op |-> op, arg |-> arg, rc |-> rc, sent |-> sent,
              status |-> KeyStatus(op, arg, rc, st, s)]
  /\ pc' = "check"
  /\ UNCHANGED env

\* What the player's launch can answer when mpv_start_if_needed has to fork.
LaunchOutcomes(m) ==
  IF m.sock /\ mpv_connect(m).ok THEN {"ready"} ELSE env.launch

\* errno after a read() that returned no data: EAGAIN while the peer is
\* there; after the peer closed, read() returns 0 and leaves errno as it was.
\* The end-of-file events a read of the channel finds, in a fixed order.
EofRead(m) ==
  SelectSeq(<<"eof", "eof_grace">>, LAMBDA k : k \in m.chan)

\* An event of kind k is among the events the last check read.
ReadKind(k) == \E i \in DOMAIN last.arg : last.arg[i] = k

ErrnoOutcomes(m) ==
  IF m.ipc_fd >= 0 /\ m.chan = {} /\ ~m.up THEN BOOLEAN ELSE {TRUE}

\* main, lines 1535-1566.
TrackEndCheck ==
  /\ pc = "check"
  /\ IF st.playing_index >= 0 /\ mpv.ipc_fd >= 0
     THEN IF st.elapsed >= GRACE
          THEN \E errno_again \in ErrnoOutcomes(mpv) :
                 LET c == mpv_check_track_end(mpv, errno_again)
                     r == play_next(st, c.mpv, "ready")
                 IN  IF c.rc
                     THEN /\ st' = r.st
                          /\ mpv' = r.mpv
                          /\ last' = [op |-> "auto_advance",
                                      arg |-> EofRead(mpv),
                                      rc |-> 0, sent |-> r.sent,
                                      status |-> AutoStatus(r.st)]
                     ELSE /\ st' = st
                          /\ mpv' = c.mpv
                          /\ last' = [op |-> "poll", arg |-> <<>>,
                                      rc |-> 0, sent |-> <<>>,
                                      status |-> Kept]
          ELSE /\ st' = st
               /\ mpv' = [mpv EXCEPT !.chan = {}]
               /\ last' = [op |-> "drain", arg |-> <<>>, rc |-> 0,
                           sent |-> <<>>, status |-> Kept]
     ELSE /\ st' = st
          /\ mpv' = mpv
          /\ last' = [op |-> "poll", arg |-> <<>>, rc |-> 0, sent |-> <<>>,
                      status |-> Kept]
  /\ pc' = "input"
  /\ UNCHANGED <<fs, env>>

Clamp(sel, count) ==
  IF sel >= count
  THEN (IF count - 1 < 0 THEN 0 ELSE count - 1)
  ELSE (IF sel < 0 THEN 0 ELSE sel)

\* The count of the list the active view shows.
ViewCount(s) ==
  IF s.view = "SEARCH" THEN search_count(s)
  ELSE IF s.view = "PLAYLIST_SONGS" THEN pl_count(s, s.current_playlist_idx)
  ELSE playlist_count(s)

ViewSel(s) ==
  IF s.view = "SEARCH" THEN s.search_selected
  ELSE IF s.view = "PLAYLISTS" THEN s.playlist_selected
  ELSE IF s.view = "PLAYLIST_SONGS" THEN s.playlist_song_selected
  ELSE s.add_to_playlist_selected

SetViewSel(s, v) ==
  IF s.view = "SEARCH" THEN [s EXCEPT !.search_selected = v]
  ELSE IF s.view = "PLAYLISTS" THEN [s EXCEPT !.playlist_selected = v]
  ELSE IF s.view = "PLAYLIST_SONGS" THEN [s EXCEPT !.playlist_song_selected = v]
  ELSE [s EXCEPT !.add_to_playlist_selected = v]

\* The list keys of each view: Up/k, Down/j, PgUp, PgDn in every list view
\* (only Up and Down in the add-to-playlist view), Home/g and End in the
\* search view.
NavKeys(s) ==
  IF s.view = "SEARCH" THEN {"UP", "DOWN", "PPAGE", "NPAGE", "HOME", "END"}
  ELSE IF s.view = "ADD_TO_PLAYLIST" THEN {"UP", "DOWN"}
  ELSE {"UP", "DOWN", "PPAGE", "NPAGE"}

\* List keys of which Down moves past the last entry.
NavigateUnbounded(s, ch) ==
  IF ch = "UP" THEN SetViewSel(s, IF ViewSel(s) > 0 THEN ViewSel(s) - 1
                                  ELSE ViewSel(s))
  ELSE SetViewSel(s, ViewSel(s) + 1)

Navigate(s, ch) ==
  LET sel == ViewSel(s)
      n   == ViewCount(s)
  IN  IF ch = "UP" THEN SetViewSel(s, IF sel > 0 THEN sel - 1 ELSE sel)
      ELSE IF ch = "DOWN" THEN SetViewSel(s, IF sel + 1 < n THEN sel + 1 ELSE sel)
      ELSE IF ch = "PPAGE"
           THEN SetViewSel(s, IF sel - ListHeight < 0 THEN 0 ELSE sel - ListHeight)
      ELSE IF ch = "NPAGE"
           THEN IF s.view = "PLAYLIST_SONGS"
                   /\ ~(s.current_playlist_idx >= 0
                        /\ s.current_playlist_idx < playlist_count(s))
                THEN s
                ELSE SetViewSel(s, Clamp(sel + ListHeight, n))
      ELSE IF ch = "HOME" THEN SetViewSel(s, 0)
      ELSE SetViewSel(s, IF n > 0 THEN n - 1 ELSE sel)

KeyNavigate ==
  /\ pc = "input"
  /\ \E ch \in NavKeys(st) :
       Commit(Navigate(st, ch), fs, mpv, "nav", <<>>, 0, <<>>)

\* getch() timed out (ERR), or a key the active view does not handle.
KeyNone ==
  /\ pc = "input"
  /\ Commit(st, fs, mpv, "none", <<>>, 0, <<>>)

\* An Escape that always goes back to the search screen.
escape_to_search(s) == [s EXCEPT !.view = "SEARCH", !.song_to_add = -1]

\* An Escape that leaves song_to_add as it was.
escape_keep(s) ==
  IF s.view = "PLAYLISTS" THEN [s EXCEPT !.view = "SEARCH"]
  ELSE IF s.view = "PLAYLIST_SONGS" THEN [s EXCEPT !.view = "PLAYLISTS"]
  ELSE [s EXCEPT !.view = "SEARCH"]

\* case 27 of the global switch.
escape(s) ==
  IF s.view = "PLAYLISTS" THEN [s EXCEPT !.view = "SEARCH"]
  ELSE IF s.view = "PLAYLIST_SONGS" THEN [s EXCEPT !.view = "PLAYLISTS"]
  ELSE IF s.view = "ADD_TO_PLAYLIST"
  THEN [s EXCEPT !.view = "SEARCH", !.song_to_add = -1]
  ELSE s

KeyEscape ==
  /\ pc = "input"
  /\ Commit(escape(st), fs, mpv, "escape", <<>>, 0, <<>>)

\* case ' ' of the global switch.
KeyPause ==
  /\ pc = "input"
  /\ IF st.playing_index >= 0 /\ mpv.sock
     THEN LET a == mpv_toggle_pause(mpv)
          IN  Commit([st EXCEPT !.paused = ~st.paused], fs, a.mpv,
                     "toggle_pause", <<>>, 0, a.sent)
     ELSE Commit(st, fs, mpv, "toggle_pause", <<>>, 0, <<>>)

\* case 'n' of the global switch.
KeyNext ==
  /\ pc = "input"
  /\ st.playing_index >= 0
  /\ \E launch \in LaunchOutcomes(mpv) :
       LET r == play_next(st, mpv, launch)
       IN  Commit(r.st, fs, r.mpv, "play_next", <<>>, 0, r.sent)

\* case 'p' of the global switch.
KeyPrev ==
  /\ pc = "input"
  /\ st.playing_index >= 0
  /\ \E launch \in LaunchOutcomes(mpv) :
       LET r == play_prev(st, mpv, launch)
       IN  Commit(r.st, fs, r.mpv, "play_prev", <<>>, 0, r.sent)

\* case 'x' of the search view and of the playlist-songs view.
KeyStop ==
  /\ pc = "input"
  /\ st.view \in {"SEARCH", "PLAYLIST_SONGS"}
  /\ st.playing_index >= 0
  /\ LET a == mpv_stop_playback(mpv)
     IN  Commit([st EXCEPT !.playing_index = -1,
                           !.playing_from_playlist = FALSE,
                           !.playing_playlist_idx = -1,
                           !.paused = FALSE],
                fs, a.mpv, "stop", <<>>, 0, a.sent)

\* Enter in the search view and in the playlist-songs view.
KeyPlay ==
  /\ pc = "input"
  /\ \/ st.view = "SEARCH" /\ search_count(st) > 0
     \/ st.view = "PLAYLIST_SONGS" /\ pl_count(st, st.current_playlist_idx) > 0
  /\ \E launch \in LaunchOutcomes(mpv) :
       LET r == IF st.view = "SEARCH"
                THEN play_search_result(st, mpv, st.search_selected, launch)
                ELSE play_playlist_song(st, mpv, st.current_playlist_idx,
                                        st.playlist_song_selected, launch)
       IN  Commit(r.st, fs, r.mpv, "play", <<>>, 0, r.sent)

\* '/' or 's' in the search view, with a query given.
KeySearch ==
  /\ pc = "input"
  /\ st.view = "SEARCH"
  /\ \E output \in env.outputs :
       Commit(run_search(st, output), fs, mpv, "run_search", <<>>,
              Len(output), <<>>)

\* 'f' in the search view.
KeyPlaylists ==
  /\ pc = "input"
  /\ st.view = "SEARCH"
  /\ Commit(load_playlists([st EXCEPT !.view = "PLAYLISTS",
                                      !.playlist_selected = 0], fs),
            fs, mpv, "load_playlists", <<>>, 0, <<>>)

\* 'a' in the search view.
KeyAdd ==
  /\ pc = "input"
  /\ st.view = "SEARCH"
  /\ search_count(st) > 0
  /\ Commit([st EXCEPT !.song_to_add = st.search_selected,
                       !.add_to_playlist_selected = 0,
                       !.view = "ADD_TO_PLAYLIST"],
            fs, mpv, "select_playlist", <<>>, 0, <<>>)

SongToAdd(s) ==
  IF s.song_to_add < 0 THEN NoSong ELSE s.search_results[s.song_to_add + 1]

\* 'c' in the search, playlists and add-to-playlist views, with a name given.
KeyCreate ==
  /\ pc = "input"
  /\ st.view \in {"SEARCH", "PLAYLISTS", "ADD_TO_PLAYLIST"}
  /\ \E name \in env.names, wi \in env.writes, wf \in env.writes :
       LET c == create_playlist(st, fs, name, wi, wf)
           a == add_song_to_playlist(c.st, c.fs, c.rc, SongToAdd(c.st), wf)
       IN  IF st.view = "PLAYLISTS" /\ c.rc >= 0
           THEN Commit([c.st EXCEPT !.playlist_selected = c.rc], c.fs, mpv,
                       "create_playlist", name, c.rc, <<>>)
           ELSE IF st.view = "ADD_TO_PLAYLIST" /\ c.rc >= 0
                   /\ st.song_to_add >= 0
           THEN Commit([a.st EXCEPT !.song_to_add = -1, !.view = "SEARCH"],
                       a.fs, mpv, "create_playlist", name, c.rc, <<>>)
           ELSE Commit(c.st, c.fs, mpv, "create_playlist", name, c.rc, <<>>)

\* Enter in the playlists view.
KeyOpen ==
  /\ pc = "input"
  /\ st.view = "PLAYLISTS"
  /\ playlist_count(st) > 0
  /\ Commit([load_playlist_songs(
               [st EXCEPT !.current_playlist_idx = st.playlist_selected],
               fs, st.playlist_selected)
             EXCEPT !.playlist_song_selected = 0, !.view = "PLAYLIST_SONGS"],
            fs, mpv, "open_playlist", <<>>, 0, <<>>)

\* 'x' or 'd' in the playlists view, answered y.
KeyDelete ==
  /\ pc = "input"
  /\ st.view = "PLAYLISTS"
  /\ playlist_count(st) > 0
  /\ \E wi \in env.writes :
       LET d == delete_playlist(st, fs, st.playlist_selected, wi)
           n == playlist_count(d.st)
       IN  Commit(IF d.rc /\ st.playlist_selected >= n /\ n > 0
                  THEN [d.st EXCEPT !.playlist_selected = n - 1]
                  ELSE d.st,
                  d.fs, mpv, "delete_playlist", <<>>, d.rc, <<>>)

\* 'd' in the playlist-songs view.
KeyRemove ==
  /\ pc = "input"
  /\ st.view = "PLAYLIST_SONGS"
  /\ pl_count(st, st.current_playlist_idx) > 0
  /\ \E wf \in env.writes :
       LET d == remove_song_from_playlist(st, fs, st.current_playlist_idx,
                                          st.playlist_song_selected, wf)
           n == pl_count(d.st, st.current_playlist_idx)
       IN  Commit(IF d.rc /\ st.playlist_song_selected >= n /\ n > 0
                  THEN [d.st EXCEPT !.playlist_song_selected = n - 1]
                  ELSE d.st,
                  d.fs, mpv, "remove_song_from_playlist", <<>>, d.rc, <<>>)

\* Enter in the add-to-playlist view.
KeyAddTo ==
  /\ pc = "input"
  /\ st.view = "ADD_TO_PLAYLIST"
  /\ playlist_count(st) > 0
  /\ st.song_to_add >= 0
  /\ \E wf \in env.writes :
       LET a == add_song_to_playlist(st, fs, st.add_to_playlist_selected,
                                     SongToAdd(st), wf)
       IN  Commit([a.st EXCEPT !.song_to_add = -1, !.view = "SEARCH"],
                  a.fs, mpv, "add_song_to_playlist", <<>>, a.rc, <<>>)

\* 'q', and the cleanup after the loop.
KeyQuit ==
  /\ pc = "input"
  /\ LET q == mpv_quit(mpv)
     IN  /\ st' = [free_search_results(st) EXCEPT !.playlists = <<>>]
         /\ mpv' = q.mpv
         /\ last' = [op |-> "quit", arg |-> <<>>, rc |-> 0, sent |-> q.sent,
                     status |-> Kept]
  /\ pc' = "done"
  /\ UNCHANGED <<fs, env>>

---------------------------------------------------------------------------
(* The environment: the clock and the player process.                      *)

\* A second passes.  st.elapsed is time(NULL) - st.playback_started, which
\* the program only ever compares with the grace interval: it is kept up to
\* GRACE.
Tick ==
  /\ pc \in {"check", "input"}
  /\ st.elapsed < GRACE
  /\ st' = [st EXCEPT !.elapsed = st.elapsed + 1]
  /\ UNCHANGED <<fs, mpv, pc, last, env>>

\* The player writes an event to the client's connection.  An end-file event
\* with reason eof that arrives while time(NULL) - st.playback_started is
\* still below the grace interval is the same text on the wire; the channel
\* remembers it as "eof_grace".
MpvEmit ==
  /\ pc \in {"check", "input"}
  /\ mpv.ipc_fd >= 0
  /\ mpv.up
  /\ \E e \in env.events :
       LET k == IF e = "eof" /\ st.elapsed < GRACE THEN "eof_grace" ELSE e
       IN  /\ k \notin mpv.chan
           /\ mpv' = [mpv EXCEPT !.chan = mpv.chan \cup {k}]
  /\ UNCHANGED <<st, fs, pc, last, env>>

\* The player process exits; its socket file stays behind.
MpvExit ==
  /\ pc \in {"check", "input"}
  /\ env.crash
  /\ mpv.up
  /\ mpv' = [mpv EXCEPT !.up = FALSE]
  /\ UNCHANGED <<st, fs, pc, last, env>>

---------------------------------------------------------------------------
(* Inputs.  What the user types and what the search collaborator returns   *)
(* are drawn from env, which never changes.                                *)

Song(title, video_id) == [title |-> title, video_id |-> video_id]

SongA == Song(<<"A">>, <<"v", "i", "d", "0", "1">>)

SongB == Song(<<"B", Q>>, <<"v", "i", "d", "0", "2">>)

SongC == Song(<<"C">>, <<"v", "i", "d", "0", "3">>)

SongD == Song(<<"D">>, <<"v", "i", "d", "0", "4">>)

SongE == Song(<<"E">>, <<"v", "i", "d", "0", "5">>)

SongBrace == Song(<<"F", "}">>, <<"v", "i", "d", "0", "6">>)

NameA == <<"a">>

NameUpperA == <<"A">>

NameABang == <<"a", "!">>

Name2A == <<"2", "_", "a">>

NameBrace == <<"a", "}">>

\* Playback from search results and from one playlist, with the player's
\* events and a launch that can time out.
EnvSession ==
  [names   |-> {NameA},
   outputs |-> {<<SongA, SongB>>, <<SongB>>},
   launch  |-> {"ready", "timeout"},
   events  |-> {"eof", "stop"},
   crash   |-> FALSE,
   writes  |-> {TRUE}]

\* Five search results and no playlist.
EnvFive ==
  [names   |-> {},
   outputs |-> {<<SongA, SongB, SongC, SongD, SongE>>},
   launch  |-> {"ready"},
   events  |-> {"eof"},
   crash   |-> FALSE,
   writes  |-> {TRUE}]

\* A player process that can exit at any time.
EnvCrash ==
  [names   |-> {},
   outputs |-> {<<SongA, SongB>>},
   launch  |-> {"ready"},
   events  |-> {"eof", "prop"},
   crash   |-> TRUE,
   writes  |-> {TRUE}]

\* Playlist names that collide ignoring case or after sanitize_filename,
\* and no song.
EnvLibrary ==
  [names   |-> {NameA, NameUpperA, NameABang, Name2A},
   outputs |-> {},
   launch  |-> {"ready"},
   events  |-> {},
   crash   |-> FALSE,
   writes  |-> {TRUE}]

\* One playlist and two songs, one with a '}' in its title.
EnvSongs ==
  [names   |-> {NameA, NameUpperA},
   outputs |-> {<<SongA, SongBrace>>},
   launch  |-> {"ready"},
   events  |-> {},
   crash   |-> FALSE,
   writes  |-> {TRUE}]

Profiles == {EnvSession, EnvFive, EnvCrash}

\* main, lines 1492-1505: the AppState after load_playlists on a fresh
\* configuration directory (init_config_dirs wrote the empty index).
InitState ==
  [search_results |-> <<>>, search_selected |-> 0,
   playlists |-> decode_index(EmptyIndex),
   playlist_selected |-> 0,
   current_playlist_idx |-> -1, playlist_song_selected |-> 0,
   playing_index |-> -1, playing_from_playlist |-> FALSE,
   playing_playlist_idx |-> -1, paused |-> FALSE,
   view |-> "SEARCH", add_to_playlist_selected |-> 0, song_to_add |-> -1,
   elapsed |-> GRACE]

InitFiles == [index |-> EmptyIndex, files |-> <<>>]

InitMpv == [pid |-> -1, ipc_fd |-> -1, sock |-> FALSE, up |-> FALSE, chan |-> {}]

\* last.status is what the last step wrote to main's status buffer.
InitLast ==
  [op |-> "init", arg |-> <<>>, rc |-> 0, sent |-> <<>>,
   status |-> <<"Press / to search, f for playlists, h for help.">>]

InitWith(e) ==
  /\ st = InitState
  /\ fs = InitFiles
  /\ mpv = InitMpv
  /\ pc = "check"
  /\ last = InitLast
  /\ env = e

Init == \E e \in Profiles : InitWith(e)

Next ==
  \/ TrackEndCheck
  \/ KeyNone
  \/ KeyNavigate
  \/ KeyEscape
  \/ KeyPause
  \/ KeyNext
  \/ KeyPrev
  \/ KeyStop
  \/ KeyPlay
  \/ KeySearch
  \/ KeyPlaylists
  \/ KeyAdd
  \/ KeyCreate
  \/ KeyOpen
  \/ KeyDelete
  \/ KeyRemove
  \/ KeyAddTo
  \/ KeyQuit
  \/ Tick
  \/ MpvEmit
  \/ MpvExit

Spec == Init /\ [][Next]_vars

\* The library store alone: the user creates, opens, fills and deletes
\* playlists and never plays anything.
InitLibrary == InitWith(EnvLibrary) \/ InitWith(EnvSongs)

NextLibrary ==
  \/ TrackEndCheck
  \/ KeyNone
  \/ KeyNavigate
  \/ KeyEscape
  \/ KeySearch
  \/ KeyPlaylists
  \/ KeyAdd
  \/ KeyCreate
  \/ KeyOpen
  \/ KeyDelete
  \/ KeyRemove
  \/ KeyAddTo

SpecLibrary == InitLibrary /\ [][NextLibrary]_vars

---------------------------------------------------------------------------
(* The codec on its own: a library drawn from bounded sets is written with *)
(* save_playlists_index and save_playlist and read back with               *)
(* load_playlists and load_playlist_songs.                                 *)

MaxCodecPlaylists == 2

MaxCodecSongs == 2

CodecNames == {<<"a">>, <<"b", Q, BS>>, <<"c", "}">>}

CodecTitles == {<<"A">>, <<Q, BS, NL>>, <<CR, TAB>>, <<"x", "}">>}

CodecIds == {<<"v", "i", "d", "0", "1">>, <<"v", "i", "d", "0", "2">>}

SeqsUpTo(S, n) == UNION {[1..k -> S] : k \in 0..n}

Distinct(seq) ==
  \A i, j \in 1..Len(seq) : i # j => seq[i] # seq[j]

\* Song lists as add_song_to_playlist builds them: no video_id twice.
CodecSongLists(n) ==
  {items \in SeqsUpTo({Song(ti, id) : ti \in CodecTitles, id \in CodecIds}, n) :
     Distinct([i \in 1..Len(items) |-> items[i].video_id])}

\* Libraries as create_playlist builds them: no name twice, each storage key
\* the one create_playlist gives the name (the names' keys do not collide).
CodecLibraries(n, k) ==
  UNION {{[i \in 1..Len(names) |->
             [name |-> names[i], filename |-> sanitize_filename(names[i]),
              items |-> lists[i]]] :
            lists \in [1..Len(names) -> CodecSongLists(k)]} :
         names \in {ns \in SeqsUpTo(CodecNames, n) : Distinct(ns)}}

RECURSIVE SaveAll(_, _, _)
SaveAll(s, f, idx) ==
  IF idx >= playlist_count(s) THEN f
  ELSE SaveAll(s, save_playlist(s, f, idx, TRUE), idx + 1)

RECURSIVE LoadAll(_, _, _)
LoadAll(s, f, idx) ==
  IF idx >= playlist_count(s) THEN s
  ELSE LoadAll(load_playlist_songs(s, f, idx), f, idx + 1)

InitCodec ==
  /\ \E lib \in CodecLibraries(MaxCodecPlaylists, MaxCodecSongs) :
       /\ st = [InitState EXCEPT !.playlists = lib]
       /\ last = [op |-> "library", arg |-> lib, rc |-> 0, sent |-> <<>>]
  /\ fs = InitFiles
  /\ mpv = InitMpv
  /\ pc = "encode"
  /\ env = EnvLibrary

CodecSave ==
  /\ pc = "encode"
  /\ fs' = SaveAll(st, save_playlists_index(st, fs, TRUE), 0)
  /\ pc' = "decode"
  /\ UNCHANGED <<st, mpv, last, env>>

CodecLoad ==
  /\ pc = "decode"
  /\ st' = LoadAll(load_playlists(st, fs), fs, 0)
  /\ pc' = "decoded"
  /\ UNCHANGED <<fs, mpv, last, env>>

NextCodec ==
  \/ CodecSave
  \/ CodecLoad

SpecCodec == InitCodec /\ [][NextCodec]_vars

\* C1: writing the index and every playlist and reading them back yields the
\* same (name, storage key) pairs and, per playlist, the same ordered
\* (title, video_id) pairs, for any library.
C1_RoundTrip ==
  pc = "decoded" => st.playlists = last.arg

---------------------------------------------------------------------------
(* The library store called directly: every operation with every index in  *)
(* range and the two next to the range, from the empty library.            *)

\* Three names of which the third gets the filename of the second, and one
\* song.
EnvStoreNames ==
  [names   |-> {NameA, Name2A, NameABang},
   outputs |-> {<<SongA>>},
   launch  |-> {"ready"},
   events  |-> {},
   crash   |-> FALSE,
   writes  |-> {TRUE}]

\* One name and three songs.
EnvStoreSongs ==
  [names   |-> {NameA},
   outputs |-> {<<SongA, SongB, SongBrace>>},
   launch  |-> {"ready"},
   events  |-> {},
   crash   |-> FALSE,
   writes  |-> {TRUE}]

\* The songs a caller can pass: those of the search results.
StoreSongs == UNION {{o[i] : i \in 1..Len(o)} : o \in env.outputs}

\* wi, wf: whether the index file, the playlist file could be opened for
\* writing during the call.
StoreDone(r, op, arg, wi, wf) ==
  /\ st' = r.st
  /\ fs' = r.fs
  /\ last' = [op |-> op, arg |-> arg, rc |-> r.rc, sent |-> <<>>,
              writes |-> [index |-> wi, file |-> wf]]
  /\ UNCHANGED <<mpv, pc, env>>

InitStore ==
  /\ st = InitState
  /\ fs = InitFiles
  /\ mpv = InitMpv
  /\ pc = "store"
  /\ last = InitLast
  /\ env \in {EnvStoreNames, EnvStoreSongs}

StoreCreate ==
  /\ pc = "store"
  /\ \E name \in env.names, wi \in env.writes, wf \in env.writes :
       StoreDone(create_playlist(st, fs, name, wi, wf), "create_playlist", name,
                 wi, wf)

StoreDelete ==
  /\ pc = "store"
  /\ \E idx \in -1..playlist_count(st), wi \in env.writes :
       StoreDone(delete_playlist(st, fs, idx, wi), "delete_playlist", <<idx>>,
                 wi, TRUE)

StoreAdd ==
  /\ pc = "store"
  /\ \E idx \in -1..playlist_count(st), song \in StoreSongs \cup {NoSong},
        wf \in env.writes :
       StoreDone(add_song_to_playlist(st, fs, idx, song, wf),
                 "add_song_to_playlist", <<idx, song>>, TRUE, wf)

StoreRemove ==
  /\ pc = "store"
  /\ \E idx \in -1..playlist_count(st), wf \in env.writes :
     \E song_idx \in -1..pl_count(st, idx) :
       StoreDone(remove_song_from_playlist(st, fs, idx, song_idx, wf),
                 "remove_song_from_playlist", <<idx, song_idx>>, TRUE, wf)

StoreLoad ==
  /\ pc = "store"
  /\ StoreDone([st |-> load_playlists(st, fs), fs |-> fs, rc |-> 0],
               "load_playlists", <<>>, TRUE, TRUE)

StoreLoadSongs ==
  /\ pc = "store"
  /\ \E idx \in -1..playlist_count(st) :
       StoreDone([st |-> load_playlist_songs(st, fs, idx), fs |-> fs, rc |-> 0],
                 "load_playlist_songs", <<idx>>, TRUE, TRUE)

NextStore ==
  \/ StoreCreate
  \/ StoreDelete
  \/ StoreAdd
  \/ StoreRemove
  \/ StoreLoad
  \/ StoreLoadSongs

SpecStore == InitStore /\ [][NextStore]_vars

\* The store with file writes that can fail: one name and two songs.
EnvFaults ==
  [names   |-> {NameA},
   outputs |-> {<<SongA, SongB>>},
   launch  |-> {"ready"},
   events  |-> {},
   crash   |-> FALSE,
   writes  |-> BOOLEAN]

InitFaults ==
  /\ st = InitState
  /\ fs = InitFiles
  /\ mpv = InitMpv
  /\ pc = "store"
  /\ last = InitLast
  /\ env = EnvFaults

SpecFaults == InitFaults /\ [][NextStore]_vars

---------------------------------------------------------------------------
(* What mpv_check_track_end looks for in the text of one read.  The player *)
(* writes one JSON object per line: end-file events with their reason,     *)
(* changes of the observed property eof-reached, replies to commands.      *)

MaxMessages == 3

EventEndFile ==
  <<Q, "e", "v", "e", "n", "t", Q, ":", Q, "e", "n", "d", "-", "f", "i", 
    "l", "e", Q>>

ReasonEof ==
  <<Q, "r", "e", "a", "s", "o", "n", Q, ":", Q, "e", "o", "f", Q>>

TextEof ==
  <<"{", Q, "e", "v", "e", "n", "t", Q, ":", Q, "e", "n", "d", "-", "f", 
    "i", "l", "e", Q, ",", Q, "r", "e", "a", "s", "o", "n", Q, ":", Q, 
    "e", "o", "f", Q, "}", NL>>

TextStop ==
  <<"{", Q, "e", "v", "e", "n", "t", Q, ":", Q, "e", "n", "d", "-", "f", 
    "i", "l", "e", Q, ",", Q, "r", "e", "a", "s", "o", "n", Q, ":", Q, 
    "s", "t", "o", "p", Q, "}", NL>>

TextError ==
  <<"{", Q, "e", "v", "e", "n", "t", Q, ":", Q, "e", "n", "d", "-", "f", 
    "i", "l", "e", Q, ",", Q, "r", "e", "a", "s", "o", "n", Q, ":", Q, 
    "e", "r", "r", "o", "r", Q, "}", NL>>

TextProp ==
  <<"{", Q, "e", "v", "e", "n", "t", Q, ":", Q, "p", "r", "o", "p", "e", 
    "r", "t", "y", "-", "c", "h", "a", "n", "g", "e", Q, ",", Q, "i", 
    "d", Q, ":", "1", ",", Q, "n", "a", "m", "e", Q, ":", Q, "e", "o", 
    "f", "-", "r", "e", "a", "c", "h", "e", "d", Q, ",", Q, "d", "a", 
    "t", "a", Q, ":", "t", "r", "u", "e", "}", NL>>

TextReply ==
  <<"{", Q, "d", "a", "t", "a", Q, ":", "n", "u", "l", "l", ",", Q, "r", 
    "e", "q", "u", "e", "s", "t", "_", "i", "d", Q, ":", "0", ",", Q, 
    "e", "r", "r", "o", "r", Q, ":", Q, "s", "u", "c", "c", "e", "s", 
    "s", Q, "}", NL>>

\* A test that takes every end-file event for the end of the track.
is_end_file(buf) == strstr(buf, EventEndFile, 1) # 0

\* The condition of line 809 on the bytes read.
is_end_file_eof(buf) ==
  strstr(buf, EventEndFile, 1) # 0 /\ strstr(buf, ReasonEof, 1) # 0

\* The lines the player writes, each with the kind the channel knows it by.
Messages ==
  {[kind |-> "eof",  reason |-> "eof",   text |-> TextEof],
   [kind |-> "stop", reason |-> "stop",  text |-> TextStop],
   [kind |-> "stop", reason |-> "error", text |-> TextError],
   [kind |-> "prop", reason |-> "none",  text |-> TextProp],
   [kind |-> "prop", reason |-> "none",  text |-> TextReply]}

RECURSIVE Buffer(_)
Buffer(msgs) ==
  IF msgs = <<>> THEN <<>> ELSE Head(msgs).text \o Buffer(Tail(msgs))

Kinds(msgs) == {msgs[i].kind : i \in 1..Len(msgs)}

\* A connected channel with the messages of one read pending.
InitRead ==
  /\ \E msgs \in SeqsUpTo(Messages, MaxMessages) :
       /\ mpv = [InitMpv EXCEPT !.pid = 1, !.ipc_fd = ConnectedFd,
                                !.sock = TRUE, !.up = TRUE,
                                !.chan = Kinds(msgs)]
       /\ last = [op |-> "written", arg |-> msgs, rc |-> FALSE, sent |-> <<>>]
  /\ st = InitState
  /\ fs = InitFiles
  /\ pc = "read"
  /\ env = EnvCrash

\* One call of mpv_check_track_end: the result from the bytes read, the
\* channel as the call leaves it.
ReadTrackEnd ==
  /\ pc = "read"
  /\ mpv' = mpv_check_track_end(mpv, TRUE).mpv
  /\ last' = [last EXCEPT !.op = "mpv_check_track_end",
                          !.rc = last.arg # <<>>
                                 /\ is_end_file_eof(Buffer(last.arg))]
  /\ pc' = "read_done"
  /\ UNCHANGED <<st, fs, env>>

\* The next call finds nothing to read.
ReadAgain ==
  /\ pc = "read_done"
  /\ mpv' = mpv_check_track_end(mpv, TRUE).mpv
  /\ last' = [last EXCEPT !.op = "read_again",
                          !.rc = mpv_check_track_end(mpv, TRUE).rc]
  /\ pc' = "read_again"
  /\ UNCHANGED <<st, fs, env>>

NextRead ==
  \/ ReadTrackEnd
  \/ ReadAgain

SpecRead == InitRead /\ [][NextRead]_vars

---------------------------------------------------------------------------
(* The playback session.                                                   *)

Running == pc \in {"check", "input"}

\* The list the loaded track was taken from has this many items.
SourceCount(s) ==
  IF s.playing_from_playlist THEN pl_count(s, s.playing_playlist_idx)
  ELSE search_count(s)

\* The session names a source that is there and a position inside it.
SourceValid(s) ==
  /\ s.playing_index >= 0
  /\ s.playing_index < SourceCount(s)
  /\ s.playing_from_playlist =>
       s.playing_playlist_idx >= 0 /\ s.playing_playlist_idx < playlist_count(s)

Session(s) ==
  <<s.playing_index, s.playing_from_playlist, s.playing_playlist_idx,
    s.paused, s.elapsed>>

\* C2: whenever the session's source is a playlist, playing_playlist_idx is
\* a valid index into the library and playing_index is within that
\* playlist's in-memory song count.
C2_PlaylistSourceValid ==
  (Running /\ st.playing_from_playlist) =>
    /\ st.playing_playlist_idx >= 0
    /\ st.playing_playlist_idx < playlist_count(st)
    /\ st.playing_index >= 0
    /\ st.playing_index < pl_count(st, st.playing_playlist_idx)

\* C3: whenever a track is loaded from the search results, playing_index is
\* below search_count.
C3_SearchSourceValid ==
  (Running /\ st.playing_index >= 0 /\ ~st.playing_from_playlist) =>
    st.playing_index < search_count(st)

\* C4: play_next never runs for an end-of-file event that arrived before the
\* grace interval had elapsed: every automatic advance has read an
\* end-of-file event that arrived after it.
C4_GraceEofIgnored ==
  last.op = "auto_advance" => ReadKind("eof")

\* The check of the main loop finds a track loaded, the channel connected,
\* the grace interval over and an end-of-file event that arrived after it.
EofDue ==
  /\ pc = "check"
  /\ pc' = "input"
  /\ st.playing_index >= 0
  /\ mpv.ipc_fd >= 0
  /\ st.elapsed >= GRACE
  /\ "eof" \in mpv.chan

\* C5: an end-of-file event that arrives after the grace interval, with a
\* track loaded and the channel connected, makes the check run play_next
\* once: the position advances by exactly one when a next item exists and
\* stays otherwise, and the event is gone from the channel, so that no later
\* iteration acts on it.
C5_EofAdvancesOnce ==
  [][EofDue =>
       /\ last'.op = "auto_advance"
       /\ mpv'.chan = {}
       /\ st'.playing_index =
            IF SourceValid(st) /\ st.playing_index + 1 < SourceCount(st)
            THEN st.playing_index + 1
            ELSE st.playing_index
       /\ st'.playing_index # st.playing_index =>
            /\ st'.elapsed = 0
            /\ st'.playing_from_playlist = st.playing_from_playlist
            /\ st'.playing_playlist_idx = st.playing_playlist_idx]_vars

\* The check advanced from the first to the second item on an end-of-file
\* event that arrived after the grace interval.
C5_Witness ==
  /\ pc = "input"
  /\ last.op = "auto_advance"
  /\ ReadKind("eof")
  /\ st.playing_index = 1
  /\ st.elapsed = 0
  /\ last.sent # <<>>
  /\ mpv.chan = {}

\* A step that ran play_next (key 'n' or the automatic advance).
NextStep ==
  \/ pc = "input" /\ pc' = "check" /\ last'.op = "play_next"
  \/ pc = "check" /\ pc' = "input" /\ last'.op = "auto_advance"

PrevStep == pc = "input" /\ pc' = "check" /\ last'.op = "play_prev"

\* C6: play_next at the last index of the source and play_prev at index 0
\* send nothing to the player and leave the session as it was; play_next
\* below the last index moves the position up by exactly one, so that from
\* 2 of 5 it reaches 3, then 4, and stays at 4.
C6_AdvanceBounds ==
  [][/\ (NextStep /\ SourceValid(st)
           /\ st.playing_index = SourceCount(st) - 1) =>
          (Session(st') = Session(st) /\ last'.sent = <<>>)
     /\ (PrevStep /\ st.playing_index = 0) =>
          (Session(st') = Session(st) /\ last'.sent = <<>>)
     /\ (NextStep /\ SourceValid(st)
           /\ st.playing_index < SourceCount(st) - 1) =>
          st'.playing_index = st.playing_index + 1]_vars

\* Key 'n' at the last of five search results left the position at 4.
C6_Witness ==
  /\ pc = "check"
  /\ last.op = "play_next"
  /\ last.sent = <<>>
  /\ mpv.ipc_fd >= 0
  /\ ~st.playing_from_playlist
  /\ search_count(st) = 5
  /\ st.playing_index = 4

---------------------------------------------------------------------------
(* The library store.                                                      *)

\* C7: no two playlists of the library have the same filename.
C7_StorageKeysUnique ==
  \A i, j \in 1..playlist_count(st) :
    i # j => st.playlists[i].filename # st.playlists[j].filename

Mutations ==
  {"create_playlist", "delete_playlist", "add_song_to_playlist",
   "remove_song_from_playlist"}

\* C8: when a library store mutation has returned, every playlist whose
\* songs are in memory has a file, named by its filename, that decodes to
\* exactly its in-memory song list.
C8_MemoryMatchesDisk ==
  last.op \in Mutations =>
    \A i \in 1..playlist_count(st) :
      st.playlists[i].items # <<>> =>
        /\ file_exists(fs, st.playlists[i].filename)
        /\ decode_playlist(fs.files[st.playlists[i].filename])
             = st.playlists[i].items

\* A step in which delete_playlist removed the selected playlist.
DeleteStep ==
  /\ pc = "input"
  /\ pc' = "check"
  /\ last'.op = "delete_playlist"
  /\ last'.rc = TRUE

\* C9: delete_playlist(i) removes exactly entry i, the playlists after it
\* move down by one with name, filename and songs as they were, the deleted
\* playlist's file is gone, and the file of every other playlist is still
\* there with the contents it had.
C9_DeleteFrame ==
  [][DeleteStep =>
       LET i == st.playlist_selected + 1
       IN  /\ st'.playlists = RemoveAt(st.playlists, i)
           /\ ~file_exists(fs', st.playlists[i].filename)
           /\ \A j \in 1..playlist_count(st) :
                (j # i /\ file_exists(fs, st.playlists[j].filename)) =>
                  /\ file_exists(fs', st.playlists[j].filename)
                  /\ fs'.files[st.playlists[j].filename]
                       = fs.files[st.playlists[j].filename]]_vars

Lowered(a) == [i \in 1..Len(a) |-> tolower(a[i])]

EqualIgnoringCase(a, b) == Lowered(a) = Lowered(b)

\* A step in which create_playlist was given a name that an existing
\* playlist has, ignoring case.
DuplicateStep ==
  /\ pc = "input"
  /\ pc' = "check"
  /\ last'.op = "create_playlist"
  /\ \E i \in 1..playlist_count(st) :
       EqualIgnoringCase(st.playlists[i].name, last'.arg)

NoDuplicateNames ==
  \A i, j \in 1..playlist_count(st) :
    i # j => ~EqualIgnoringCase(st.playlists[i].name, st.playlists[j].name)

\* C10 as stated: create_playlist with a name that exists ignoring case
\* returns -2 and leaves the library and the files as they were.
C10_DuplicateRejected ==
  [][DuplicateStep =>
       /\ last'.rc = -2
       /\ st'.playlists = st.playlists
       /\ fs' = fs]_vars

\* C10: create_playlist with a name that exists ignoring case leaves the
\* library and the files as they were and returns -2 while the library holds
\* fewer than MAX_PLAYLISTS playlists, -1 when it is full; no two playlists
\* ever have names that are equal ignoring case.
C10_DuplicateRejectedUnlessFull ==
  /\ []NoDuplicateNames
  /\ [][DuplicateStep =>
          /\ last'.rc = IF playlist_count(st) >= MAX_PLAYLISTS THEN -1 ELSE -2
          /\ st'.playlists = st.playlists
          /\ fs' = fs]_vars

\* create_playlist has just refused the name of an existing playlist, given
\* in the other case, with -2.
C10_Witness ==
  /\ last.op = "create_playlist"
  /\ last.rc = -2
  /\ last.arg = NameUpperA
  /\ \E i \in 1..playlist_count(st) : st.playlists[i].name = NameA
  /\ playlist_count(st) < MAX_PLAYLISTS

---------------------------------------------------------------------------
(* The library store, operation by operation.                              *)

\* How many times the video_id occurs in the song list.
Copies(items, video_id) ==
  Cardinality({k \in 1..Len(items) : items[k].video_id = video_id})

\* C11: no playlist holds two songs with the same video_id, so that adding
\* a song a second time, whatever was done in between, leaves one copy.
C11_NoDuplicateSongs ==
  \A i \in 1..playlist_count(st) :
    \A k \in 1..Len(st.playlists[i].items) :
      Copies(st.playlists[i].items, st.playlists[i].items[k].video_id) = 1

\* add_song_to_playlist has just refused a song that the playlist, which is
\* not full, holds once.
C11_Witness ==
  /\ last.op = "add_song_to_playlist"
  /\ last.rc = FALSE
  /\ last.arg[1] >= 0
  /\ last.arg[1] < playlist_count(st)
  /\ last.arg[2] # NoSong
  /\ pl_count(st, last.arg[1]) < MAX_PLAYLIST_ITEMS
  /\ Copies(st.playlists[last.arg[1] + 1].items, last.arg[2].video_id) = 1

\* The songs of playlist i (counted from 1): those in memory, or, while none
\* are in memory, those its file holds.
Songs(s, f, i) ==
  IF s.playlists[i].items # <<>> THEN s.playlists[i].items
  ELSE IF file_exists(f, s.playlists[i].filename)
       THEN decode_playlist(f.files[s.playlists[i].filename])
       ELSE <<>>

\* The file of the playlist is there after the step with the contents it had.
FileKept(i) ==
  file_exists(fs, st.playlists[i].filename) =>
    /\ file_exists(fs', st.playlists[i].filename)
    /\ fs'.files[st.playlists[i].filename] = fs.files[st.playlists[i].filename]

\* C12: an add that is refused returns false and changes neither the songs
\* of any playlist nor any file; an add that succeeds appends the song at
\* the end of the playlist and leaves the other playlists, the index file
\* and the file of every other playlist as they were.
C12_AddFrame ==
  [][last'.op = "add_song_to_playlist" =>
       LET idx  == last'.arg[1] + 1
           song == last'.arg[2]
       IN  /\ last'.rc = FALSE =>
                /\ fs' = fs
                /\ playlist_count(st') = playlist_count(st)
                /\ \A i \in 1..playlist_count(st) :
                     /\ st'.playlists[i].name = st.playlists[i].name
                     /\ st'.playlists[i].filename = st.playlists[i].filename
                     /\ Songs(st', fs', i) = Songs(st, fs, i)
           /\ last'.rc = TRUE =>
                /\ st'.playlists[idx].items = Append(Songs(st, fs, idx), song)
                /\ fs'.index = fs.index
                /\ \A i \in 1..playlist_count(st) :
                     i # idx => /\ st'.playlists[i] = st.playlists[i]
                                /\ FileKept(i)]_vars

\* The sequence without its element at position k + 1, the others in the
\* order they had.
Without(seq, k) ==
  [j \in 1..(Len(seq) - 1) |-> IF j <= k THEN seq[j] ELSE seq[j + 1]]

\* C13: remove_song_from_playlist(p, s) with p or s out of range returns
\* false and changes neither memory nor disk; otherwise the playlist's songs
\* become the previous songs without element s, in their previous order,
\* and the playlist's file is what save_playlist writes for that sequence.
C13_RemoveSong ==
  [][last'.op = "remove_song_from_playlist" =>
       LET p == last'.arg[1]
           s == last'.arg[2]
       IN  IF p < 0 \/ p >= playlist_count(st)
              \/ s < 0 \/ s >= Len(st.playlists[p + 1].items)
           THEN /\ last'.rc = FALSE
                /\ st' = st
                /\ fs' = fs
           ELSE /\ last'.rc = TRUE
                /\ playlist_count(st') = playlist_count(st)
                /\ st'.playlists[p + 1].items
                     = Without(st.playlists[p + 1].items, s)
                /\ st'.playlists[p + 1].name = st.playlists[p + 1].name
                /\ st'.playlists[p + 1].filename = st.playlists[p + 1].filename
                /\ \A i \in 1..playlist_count(st) :
                     i # p + 1 => st'.playlists[i] = st.playlists[i]
                /\ file_exists(fs', st.playlists[p + 1].filename)
                /\ fs'.files[st.playlists[p + 1].filename]
                     = encode_playlist(
                         [st.playlists[p + 1] EXCEPT
                            !.items = Without(st.playlists[p + 1].items, s)])]_vars

\* remove_song_from_playlist has just removed the first of two songs.
C13_Witness ==
  /\ last.op = "remove_song_from_playlist"
  /\ last.rc = TRUE
  /\ last.arg[2] = 0
  /\ pl_count(st, last.arg[1]) = 1

---------------------------------------------------------------------------
(* The player channel.                                                     *)

C15_PeerGoneDisconnects ==
  [][(/\ pc = "check" /\ pc' = "input"
      /\ st.playing_index >= 0
      /\ st.elapsed >= GRACE
      /\ mpv.ipc_fd >= 0
      /\ mpv.chan = {}
      /\ ~mpv.up)
     => mpv'.ipc_fd = -1]_vars

---------------------------------------------------------------------------
(* The keys of the playback session.                                       *)

\* The list Enter plays from in state s, the index it asks for, and whether
\* that index is inside the list.
PlayList(s) ==
  IF s.view = "SEARCH" THEN s.search_results
  ELSE IF s.current_playlist_idx >= 0
          /\ s.current_playlist_idx < playlist_count(s)
       THEN s.playlists[s.current_playlist_idx + 1].items
       ELSE <<>>

PlayIndex(s) ==
  IF s.view = "SEARCH" THEN s.search_selected ELSE s.playlist_song_selected

PlayValid(s) == PlayIndex(s) >= 0 /\ PlayIndex(s) < Len(PlayList(s))

LoadFile(song) == [cmd |-> "loadfile", arg |-> EscapeUrl(Url(song.video_id))]

PlayRefused ==
  /\ \A i \in {-1, search_count(st)}, launch \in {"ready", "timeout"} :
       play_search_result(st, mpv, i, launch)
         = [st |-> st, mpv |-> mpv, sent |-> <<>>]
  /\ \A p \in -1..playlist_count(st), launch \in {"ready", "timeout"} :
       \A i \in {-1, pl_count(st, p)} \cup
                (IF p \in 0..(playlist_count(st) - 1) THEN {} ELSE {0}) :
         play_playlist_song(st, mpv, p, i, launch)
           = [st |-> st, mpv |-> mpv, sent |-> <<>>]

C17_StopInEveryScreen ==
  (pc = "input" /\ st.playing_index >= 0) => ENABLED KeyStop

\* C18: the pause key with nothing loaded sends nothing and leaves paused
\* as it was; with a track loaded it sends cycle pause and flips paused.
C18_PauseToggle ==
  [][(pc = "input" /\ last'.op = "toggle_pause") =>
       IF st.playing_index < 0
       THEN last'.sent = <<>> /\ st'.paused = st.paused
       ELSE /\ \E k \in 1..Len(last'.sent) : last'.sent[k] = CmdPause
            /\ st'.paused = ~st.paused]_vars

---------------------------------------------------------------------------
(* The screens.                                                            *)

Adding(s) == s.view = "ADD_TO_PLAYLIST"

EscapeTable(view) ==
  IF view = "PLAYLISTS" THEN "SEARCH"
  ELSE IF view = "PLAYLIST_SONGS" THEN "PLAYLISTS"
  ELSE IF view = "ADD_TO_PLAYLIST" THEN "SEARCH"
  ELSE "SEARCH"

\* C20: the screen changes by the table and by nothing else.  Escape maps
\* playlists to search, playlist-songs to playlists, add-to-playlist to
\* search and leaves search; completing an add (Enter on a playlist, or c
\* creating the playlist the song is added to) goes from add-to-playlist to
\* search; forward go f (search to playlists), a with results (search to
\* add-to-playlist) and Enter on a non-empty list (playlists to
\* playlist-songs); every other key, the track-end check, the clock and the
\* player leave the screen as it is.
C20_ScreenTable ==
  [][/\ (pc = "input" /\ last'.op = "escape") =>
          st'.view = EscapeTable(st.view)
     /\ (pc = "input" /\ last'.op = "load_playlists") =>
          st.view = "SEARCH" /\ st'.view = "PLAYLISTS"
     /\ (pc = "input" /\ last'.op = "select_playlist") =>
          /\ st.view = "SEARCH" /\ st'.view = "ADD_TO_PLAYLIST"
          /\ st.search_results # <<>>
     /\ (pc = "input" /\ last'.op = "open_playlist") =>
          /\ st.view = "PLAYLISTS" /\ st'.view = "PLAYLIST_SONGS"
          /\ st.playlists # <<>>
     /\ (pc = "input" /\ last'.op = "add_song_to_playlist") =>
          st.view = "ADD_TO_PLAYLIST" /\ st'.view = "SEARCH"
     /\ st'.view # st.view =>
          /\ pc = "input"
          /\ \/ last'.op \in {"escape", "load_playlists", "select_playlist",
                              "open_playlist", "add_song_to_playlist"}
             \/ /\ last'.op = "create_playlist"
                /\ st.view = "ADD_TO_PLAYLIST" /\ st'.view = "SEARCH"
                /\ Len(st'.playlists) = Len(st.playlists) + 1
                /\ st'.playlists[Len(st'.playlists)].items
                     = <<st.search_results[st.song_to_add + 1]>>]_vars

\* Escape in the playlist-songs screen of the first playlist, while a track
\* plays, went back to the playlists screen.
C20_Witness ==
  /\ last.op = "escape"
  /\ st.view = "PLAYLISTS"
  /\ st.current_playlist_idx = 0
  /\ st.playing_index >= 0

---------------------------------------------------------------------------
(* Loading and saving, with writes that fail.                              *)

\* C21: load_playlist_songs on a playlist that has songs in memory leaves
\* that playlist's songs as they were.
C21_LoadLoadedNoOp ==
  [][(/\ pc = "store"
      /\ last'.op = "load_playlist_songs"
      /\ pl_count(st, last'.arg[1]) > 0)
     => st'.playlists[last'.arg[1] + 1].items
          = st.playlists[last'.arg[1] + 1].items]_vars

---------------------------------------------------------------------------
(* The loop: the track-end check and what the screen then shows.           *)

\* The items of the source the session of s plays from.
SourceItems(s) ==
  IF s.playing_from_playlist /\ s.playing_playlist_idx >= 0
  THEN (IF s.playing_playlist_idx < playlist_count(s)
        THEN s.playlists[s.playing_playlist_idx + 1].items
        ELSE <<>>)
  ELSE s.search_results

LoadFiles(sent) == {k \in 1..Len(sent) : sent[k].cmd = "loadfile"}

\* C22: one iteration of the loop advances at most once, and only in its
\* track-end check: the check sends at most one loadfile and moves the
\* session by one item or not at all, and the key handled after it is not an
\* auto-advance.  An advance is whole when the screen is drawn: position,
\* source, paused, start time, the selection and the status naming the new
\* track are those of the next item, its url is the one loaded, and the
\* events read are gone from the channel.
C22_OneAdvancePerIteration ==
  [][/\ (pc = "input" /\ pc' # pc) => last'.op # "auto_advance"
     /\ (pc = "check" /\ pc' = "input") =>
          /\ Cardinality(LoadFiles(last'.sent)) <= 1
          /\ last'.op # "auto_advance" => st' = st
          /\ st' # st =>
               /\ last'.op = "auto_advance"
               /\ st'.playing_index = st.playing_index + 1
               /\ st'.playing_index < Len(SourceItems(st))
               /\ st'.playing_from_playlist = st.playing_from_playlist
               /\ st'.playing_playlist_idx = st.playing_playlist_idx
               /\ SourceItems(st') = SourceItems(st)
               /\ ~st'.paused
               /\ st'.elapsed = 0
               /\ IF st'.playing_from_playlist
                  THEN st'.playlist_song_selected = st'.playing_index
                  ELSE st'.search_selected = st'.playing_index
               /\ last'.status =
                    <<"Auto-playing: %s",
                      SourceItems(st')[st'.playing_index + 1].title>>
               /\ last'.sent =
                    <<LoadFile(SourceItems(st')[st'.playing_index + 1])>>
               /\ mpv'.chan = {}]_vars

\* The track-end check advanced a playlist from its first to its second
\* song on an end-file event read together with another message.
C22_Witness ==
  /\ pc = "input"
  /\ last.op = "auto_advance"
  /\ st.playing_from_playlist
  /\ st.playing_index = 1
  /\ st.playlist_song_selected = 1
  /\ last.status = <<"Auto-playing: %s", SourceItems(st)[2].title>>
  /\ Len(last.sent) = 1

---------------------------------------------------------------------------
(* Playing without a player.                                               *)

\* C23: a play request that ends without a connection to the player (the
\* player could not be started or reached) leaves playing_index,
\* playing_from_playlist, playing_playlist_idx and paused as they were.
C23_UnreachablePlayIsNoOp ==
  [][(/\ pc = "input"
      /\ last'.op \in {"play", "play_next", "play_prev"}
      /\ mpv'.ipc_fd < 0)
     => /\ st'.playing_index = st.playing_index
        /\ st'.playing_from_playlist = st.playing_from_playlist
        /\ st'.playing_playlist_idx = st.playing_playlist_idx
        /\ st'.paused = st.paused]_vars

\* C24: when the player's socket did not appear within the polls of
\* mpv_start_if_needed, the status after the play request does not announce
\* the track as playing.
C24_LaunchFailureReported ==
  [][(/\ pc = "input"
      /\ last'.op = "play"
      /\ PlayValid(st)
      /\ ~mpv'.sock
      /\ mpv'.ipc_fd < 0)
     => last'.status[1] # "Playing: %s"]_vars

---------------------------------------------------------------------------
(* Quitting.                                                               *)

Positions(sent, cmd) == {k \in 1..Len(sent) : sent[k].cmd = cmd}

\* C25: after mpv_quit there is no socket file, mpv_ipc_fd is -1 and mpv_pid
\* is -1, whatever the connection and the process were before; SIGTERM is
\* sent exactly when mpv_pid recorded a launched player, and after the quit
\* command when that was sent.
C25_QuitCleansUp ==
  [][(pc = "input" /\ pc' = "done") =>
       /\ ~mpv'.sock
       /\ mpv'.ipc_fd = -1
       /\ mpv'.pid = -1
       /\ Positions(last'.sent, "kill SIGTERM") # {} <=> mpv.pid > 0
       /\ \A i \in Positions(last'.sent, "quit"),
             j \in Positions(last'.sent, "kill SIGTERM") : i < j
       /\ Positions(last'.sent, "quit") # {}
            <=> (mpv.ipc_fd >= 0 \/ (mpv.sock /\ mpv.up))]_vars

\* A quit with the player running and connected: the quit command, then
\* SIGTERM, and nothing left.
C25_Witness ==
  /\ pc = "done"
  /\ last.sent = <<CmdQuit, Kill(1)>>
  /\ ~mpv.sock
  /\ mpv.ipc_fd = -1
  /\ mpv.pid = -1

\* The library on disk is the one in memory: the index file decodes to the
\* names and filenames in memory, in their order, and every playlist has its
\* file, which decodes to its songs in memory.
DiskIsMemory(s, f) ==
  LET disk == decode_index(f.index)
  IN  /\ Len(disk) = playlist_count(s)
      /\ \A i \in 1..playlist_count(s) :
           /\ disk[i].name = s.playlists[i].name
           /\ disk[i].filename = s.playlists[i].filename
           /\ file_exists(f, s.playlists[i].filename)
           /\ decode_playlist(f.files[s.playlists[i].filename])
                = s.playlists[i].items

\* What the call of the step returns when every write succeeds.
Written(op, arg) ==
  IF op = "create_playlist" THEN create_playlist(st, fs, arg, TRUE, TRUE)
  ELSE IF op = "delete_playlist" THEN delete_playlist(st, fs, arg[1], TRUE)
  ELSE IF op = "add_song_to_playlist"
  THEN add_song_to_playlist(st, fs, arg[1], arg[2], TRUE)
  ELSE remove_song_from_playlist(st, fs, arg[1], arg[2], TRUE)

Succeeds(op, r) == IF op = "create_playlist" THEN r.rc >= 0 ELSE r.rc = TRUE

\* A step of the store in which a file could not be opened for writing, for
\* a call that is not refused.
FailedWrite ==
  /\ pc = "store"
  /\ last'.op \in Mutations
  /\ Succeeds(last'.op, Written(last'.op, last'.arg))
  /\ ~(last'.writes.index /\ last'.writes.file)

\* C26: when a write of a mutation fails, the mutation stays in memory and
\* the library in memory differs from the one on disk when the operation
\* has returned.
C26_FailedWriteDiverges ==
  [][FailedWrite => (st' # st /\ ~DiskIsMemory(st', fs'))]_vars

\* C26, without the last part: when a write of a mutation fails, memory and
\* the value returned are those of the same call with the write succeeding
\* (nothing is rolled back, success is reported), and the file that could
\* not be opened holds what it held, so that memory and disk differ unless
\* the file held the new contents already.
C26_FailedWriteKeepsMutation ==
  [][FailedWrite =>
       /\ st' = Written(last'.op, last'.arg).st
       /\ last'.rc = Written(last'.op, last'.arg).rc
       /\ st' # st
       /\ ~last'.writes.index => fs'.index = fs.index
       /\ ~last'.writes.file =>
            \A n \in DOMAIN fs'.files :
              n \in DOMAIN fs.files /\ fs'.files[n] = fs.files[n]
       /\ (last'.writes.file /\ last'.op # "create_playlist") =>
            fs'.files = Written(last'.op, last'.arg).fs.files]_vars

\* An add whose write failed: the song is in memory and not in the file.
C26_Witness ==
  /\ last.op = "add_song_to_playlist"
  /\ last.rc = TRUE
  /\ ~last.writes.file
  /\ st.playlists[last.arg[1] + 1].items # <<>>
  /\ file_exists(fs, st.playlists[last.arg[1] + 1].filename)
  /\ decode_playlist(fs.files[st.playlists[last.arg[1] + 1].filename])
       # st.playlists[last.arg[1] + 1].items

---------------------------------------------------------------------------
(* The decoders on files the program did not write: every prefix of a      *)
(* playlist file and of an index file, each of the two without its list    *)
(* label and without its opening bracket, and playlist files whose song    *)
(* objects lack a field.  load_playlist_songs and load_playlists are run   *)
(* on each.                                                                *)

Prefixes(text) == {SubSeq(text, 1, k) : k \in 0..Len(text)}

Cut(text, from, to) ==
  SubSeq(text, 1, from - 1) \o SubSeq(text, to + 1, Len(text))

NoLabel(text, label) ==
  Cut(text, strstr(text, label, 1), strstr(text, label, 1) + Len(label) - 1)

NoBracket(text) == Cut(text, strchr(text, "[", 1), strchr(text, "[", 1))

Field(key, value) ==
  IF value = NULL THEN <<>>
  ELSE <<Q>> \o key \o <<Q, ":", " ", Q>> \o json_escape_string(value) \o <<Q>>

\* A song object in the layout of save_playlist, a field left out when NULL.
SongObject(o) ==
  <<" ", " ", " ", " ", "{">> \o Field(KeyTitle, o.title)
  \o (IF o.title # NULL /\ o.video_id # NULL THEN <<",", " ">> ELSE <<>>)
  \o Field(KeyVideoId, o.video_id) \o <<"}">>

RECURSIVE SongObjects(_, _)
SongObjects(objs, i) ==
  IF i > Len(objs) THEN <<>>
  ELSE SongObject(objs[i]) \o (IF i < Len(objs) THEN <<",">> ELSE <<>>)
       \o <<NL>> \o SongObjects(objs, i + 1)

PlaylistText(name, objs) ==
  PlaylistHeadA \o name \o PlaylistHeadB \o SongObjects(objs, 1) \o ListTail

MaxObjects == 2

FieldObjects ==
  SeqsUpTo({Song(ti, id) : ti \in {NULL, SongA.title},
                           id \in {NULL, <<>>, SongA.video_id,
                                   SongB.video_id}}, MaxObjects)

PlaylistOf(name, items) ==
  [name |-> name, filename |-> sanitize_filename(name), items |-> items]

WholePlaylist == encode_playlist(PlaylistOf(NameA, <<SongA, SongB>>))

WholeIndex ==
  encode_index(<<PlaylistOf(NameA, <<>>), PlaylistOf(Name2A, <<>>)>>)

Input(op, arg, text) == [op |-> op, arg |-> arg, text |-> text]

DecodeInputs ==
  UNION {{Input("prefix", w, t) : t \in Prefixes(w)}
         \cup {Input("nobracket", w, NoBracket(w))} :
           w \in {WholePlaylist, WholeIndex}}
  \cup {Input("nolabel", WholePlaylist, NoLabel(WholePlaylist, LabelSongs)),
        Input("nolabel", WholeIndex, NoLabel(WholeIndex, LabelPlaylists))}
  \cup {Input("fields", objs, PlaylistText(NameA, objs)) :
          objs \in FieldObjects}

\* The text is both the index file and the file of the one playlist in
\* memory, which has no songs in memory.
InitDecode ==
  /\ \E inp \in DecodeInputs :
       /\ last = [op |-> inp.op, arg |-> inp.arg, rc |-> 0, sent |-> <<>>]
       /\ fs = [WriteFile(InitFiles, sanitize_filename(NameA), inp.text)
                  EXCEPT !.index = inp.text]
  /\ st = [InitState EXCEPT !.playlists = <<PlaylistOf(NameA, <<>>)>>]
  /\ mpv = InitMpv
  /\ pc = "damaged"
  /\ env = EnvLibrary

DecodeSongs ==
  /\ pc = "damaged"
  /\ st' = load_playlist_songs(st, fs, 0)
  /\ pc' = "songs"
  /\ UNCHANGED <<fs, mpv, last, env>>

DecodeIndex ==
  /\ pc = "damaged"
  /\ st' = load_playlists(st, fs)
  /\ pc' = "playlists"
  /\ UNCHANGED <<fs, mpv, last, env>>

NextDecode ==
  \/ DecodeSongs
  \/ DecodeIndex

SpecDecode == InitDecode /\ [][NextDecode]_vars

HasSourceId(o) == o.video_id # NULL /\ o.video_id # <<>>

\* C27: load_playlist_songs keeps exactly the song objects that have a
\* non-empty video_id, in their order: an object without a video_id or with
\* an empty one is dropped, an object with a video_id is kept with its title,
\* or with a placeholder title when it has no title field.
C27_DecodedSongFields ==
  (pc = "songs" /\ last.op = "fields") =>
    LET want  == SelectSeq(last.arg, HasSourceId)
        items == st.playlists[1].items
    IN  /\ Len(items) = Len(want)
        /\ \A i \in 1..Len(want) :
             i <= Len(items) =>
               /\ items[i].video_id = want[i].video_id
               /\ items[i].title # NULL
               /\ want[i].title # NULL => items[i].title = want[i].title

\* The file read is cut short or lacks the list label or the bracket.
Damaged ==
  \/ last.op \in {"nolabel", "nobracket"}
  \/ last.op = "prefix" /\ Len(fs.index) < Len(last.arg)

\* C28: from a file that is a proper prefix of a file the program writes, or
\* that lacks the list label or the opening bracket, load_playlist_songs
\* leaves the playlist without songs and load_playlists leaves the library
\* without playlists.
C28_DamagedDecodesEmpty ==
  /\ (pc = "songs" /\ Damaged) => pl_count(st, 0) = 0
  /\ (pc = "playlists" /\ Damaged) => playlist_count(st) = 0

---------------------------------------------------------------------------
(* The library store with a name that holds a '}'.                         *)

\* Two names with different storage keys, the second with a '}', and one
\* song.
EnvBraceName ==
  [names   |-> {Name2A, NameBrace},
   outputs |-> {<<SongA>>},
   launch  |-> {"ready"},
   events  |-> {},
   crash   |-> FALSE,
   writes  |-> {TRUE}]

InitBraceName ==
  /\ st = InitState
  /\ fs = InitFiles
  /\ mpv = InitMpv
  /\ pc = "store"
  /\ last = InitLast
  /\ env = EnvBraceName

SpecBraceName == InitBraceName /\ [][NextStore]_vars

IndexPairs(pls) == [i \in 1..Len(pls) |-> <<pls[i].name, pls[i].filename>>]

\* C29: when create_playlist or delete_playlist has returned, every file
\* write having succeeded, the playlists that load_playlists reads from the
\* index file are the playlists in memory, as (name, filename) pairs in the
\* same order.
C29_IndexListsLibrary ==
  last.op \in {"create_playlist", "delete_playlist"} =>
    IndexPairs(load_playlists(st, fs).playlists) = IndexPairs(st.playlists)

---------------------------------------------------------------------------
(* The end of the source.                                                  *)

\* The session is at the last item of the list it plays from.
AtLastItem(s) ==
  s.playing_index >= 0 /\ s.playing_index + 1 = Len(SourceItems(s))

\* C30: when the track-end check reads an end-of-file event while the
\* session is at the last item of its source, nothing is loaded into the
\* player, the session is unchanged, a further play_next changes nothing
\* either, and the status the screen is drawn with is 'Playback finished',
\* not the announcement of an auto-played title.
C30_EndOfSource ==
  [][(pc = "check" /\ pc' = "input" /\ last'.op = "auto_advance"
      /\ AtLastItem(st)) =>
       /\ LoadFiles(last'.sent) = {}
       /\ st' = st
       /\ play_next(st', mpv', "ready").st = st'
       /\ play_next(st', mpv', "ready").sent = <<>>
       /\ last'.status = <<"Playback finished">>]_vars

---------------------------------------------------------------------------
(* Adding to a playlist whose songs are not in memory.                     *)

\* The song lists a playlist file of the store can hold.
PersistedLists == SeqsUpTo(StoreSongs, MAX_PLAYLIST_ITEMS)

FileOf(pl, items) == encode_playlist([pl EXCEPT !.items = items])

\* C31: when add_song_to_playlist succeeds on a playlist that has no songs
\* in memory and whose file holds a list of songs, the file written holds
\* that list, in its order, followed by the new song.
C31_AddKeepsPersisted ==
  [][(/\ last'.op = "add_song_to_playlist"
      /\ last'.rc = TRUE
      /\ pl_count(st, last'.arg[1]) = 0
      /\ file_exists(fs, st.playlists[last'.arg[1] + 1].filename)) =>
       LET pl == st.playlists[last'.arg[1] + 1]
       IN  \A items \in PersistedLists :
             fs.files[pl.filename] = FileOf(pl, items) =>
               fs'.files[pl.filename]
                 = FileOf(pl, Append(items, last'.arg[2]))]_vars

---------------------------------------------------------------------------
(* The session and the track the player holds.                             *)

\* The video_id of the song the session points at, NULL when its position is
\* outside its source.
PointedSong(s) ==
  IF s.playing_index >= 0 /\ s.playing_index < Len(SourceItems(s))
  THEN SourceItems(s)[s.playing_index + 1].video_id
  ELSE NULL

\* C32: the song at (source, playing_index) is the song last loaded into the
\* player: a search, a removal of a song, a deletion of a playlist or a
\* reopening of the playlist list, none of which loads anything, leaves the
\* session pointing at the song it pointed at.
C32_SessionFollowsPlayer ==
  [][(/\ pc = "input"
      /\ pc' = "check"
      /\ last'.op \in {"run_search", "remove_song_from_playlist",
                       "delete_playlist", "load_playlists"}
      /\ mpv.ipc_fd >= 0
      /\ PointedSong(st) # NULL) =>
       /\ LoadFiles(last'.sent) = {}
       /\ PointedSong(st') = PointedSong(st)]_vars

---------------------------------------------------------------------------
(* What create_playlist leaves alone.                                      *)

\* C33: create_playlist, whatever name it is given and whatever it returns,
\* leaves the file of every playlist that existed before the call on disk
\* with the contents it had.
C33_CreateKeepsFiles ==
  [][last'.op = "create_playlist" =>
       \A i \in 1..playlist_count(st) : FileKept(i)]_vars

---------------------------------------------------------------------------
(* The selections.                                                         *)

\* sel is a position in a list of n entries: 0 when the list is empty.
ValidSel(sel, n) == IF n = 0 THEN sel = 0 ELSE sel >= 0 /\ sel < n

\* Searches that return three results and one.
EnvShrink ==
  [names   |-> {},
   outputs |-> {<<SongA, SongB, SongC>>, <<SongD>>},
   launch  |-> {"ready"},
   events  |-> {},
   crash   |-> FALSE,
   writes  |-> {TRUE}]

\* Two playlists and two songs.
EnvTwoLists ==
  [names   |-> {NameA, Name2A},
   outputs |-> {<<SongA, SongB>>},
   launch  |-> {"ready"},
   events  |-> {},
   crash   |-> FALSE,
   writes  |-> {TRUE}]

InitSelect == InitWith(EnvShrink) \/ InitWith(EnvTwoLists)

\* The keys that move a selection, change a list or play: the user
\* searches, fills playlists, browses them and plays, steps forward and
\* back; no time passes and the player sends nothing.
NextSelect ==
  \/ TrackEndCheck
  \/ KeyNavigate
  \/ KeyEscape
  \/ KeyNext
  \/ KeyPrev
  \/ KeyPlay
  \/ KeySearch
  \/ KeyPlaylists
  \/ KeyAdd
  \/ KeyCreate
  \/ KeyOpen
  \/ KeyAddTo

SpecSelect == InitSelect /\ [][NextSelect]_vars

\* C34: the search selection is always a position in the search results:
\* 0 when there are none, and below search_count otherwise.
C34_SearchSelectionValid ==
  Running => ValidSel(st.search_selected, search_count(st))


\* C35: while the playlist-songs screen is shown, playlist_song_selected is
\* a position in the playlist shown (current_playlist_idx): 0 when it has no
\* songs, below its song count otherwise.
C35_SongSelectionValid ==
  (Running /\ st.view = "PLAYLIST_SONGS") =>
    ValidSel(st.playlist_song_selected, pl_count(st, st.current_playlist_idx))

\* Two playlists and one song.
EnvTwoNames ==
  [names   |-> {NameA, Name2A},
   outputs |-> {<<SongA>>},
   launch  |-> {"ready"},
   events  |-> {},
   crash   |-> FALSE,
   writes  |-> {TRUE}]

InitLists == InitWith(EnvTwoNames)

\* The library screens with two playlists; nothing is played.
SpecLists == InitLists /\ [][NextLibrary]_vars

\* C36 as stated: playlist_selected and add_to_playlist_selected are always
\* positions in the library, 0 when it is empty, and while the
\* playlist-songs screen is shown current_playlist_idx is the index of a
\* playlist of the library.
C36_PlaylistIndicesValid ==
  Running =>
    /\ ValidSel(st.playlist_selected, playlist_count(st))
    /\ ValidSel(st.add_to_playlist_selected, playlist_count(st))
    /\ st.view = "PLAYLIST_SONGS" =>
         /\ st.current_playlist_idx >= 0
         /\ st.current_playlist_idx < playlist_count(st)


\* C36: playlist_selected is always a position in the library, 0 when it is
\* empty; while the add-to-playlist screen is shown add_to_playlist_selected
\* is one too; while the playlist-songs screen is shown current_playlist_idx
\* is the index of a playlist of the library.
C36_PlaylistIndicesValidOnScreen ==
  Running =>
    /\ ValidSel(st.playlist_selected, playlist_count(st))
    /\ st.view = "ADD_TO_PLAYLIST" =>
         ValidSel(st.add_to_playlist_selected, playlist_count(st))
    /\ st.view = "PLAYLIST_SONGS" =>
         /\ st.current_playlist_idx >= 0
         /\ st.current_playlist_idx < playlist_count(st)

\* The add-to-playlist screen with the last of two playlists selected.
C36_Witness ==
  /\ pc = "check"
  /\ st.view = "ADD_TO_PLAYLIST"
  /\ last.op = "nav"
  /\ playlist_count(st) = 2
  /\ st.add_to_playlist_selected = 1

---------------------------------------------------------------------------
(* The shape of the session.                                               *)

\* C37: the session is well-formed in every state of the loop: with no track
\* loaded (playing_index = -1) playing_from_playlist is false,
\* playing_playlist_idx is -1 and paused is false; and playing_from_playlist
\* is true exactly when playing_playlist_idx >= 0.
C37_SessionWellFormed ==
  Running =>
    /\ st.playing_index >= -1
    /\ st.playing_index = -1 =>
         /\ ~st.playing_from_playlist
         /\ st.playing_playlist_idx = -1
         /\ ~st.paused
    /\ st.playing_from_playlist <=> st.playing_playlist_idx >= 0

\* A search result has been played in a session that holds a playlist with
\* a song, as after playing from the playlist and then from the results.
C37_Witness ==
  /\ last.op = "play"
  /\ LoadFiles(last.sent) # {}
  /\ st.playing_index >= 0
  /\ ~st.playing_from_playlist
  /\ playlist_count(st) > 0
  /\ pl_count(st, 0) > 0
  /\ st.view = "SEARCH"
  /\ st.current_playlist_idx = 0

---------------------------------------------------------------------------
(* Progress of the auto-advance.  The loop keeps running: getch() returns  *)
(* after its timeout at the latest and the check follows, and the clock    *)
(* goes on.  The player is not obliged to send anything.                   *)

\* Search results of two and three songs and a player that reports the end
\* of a track.
EnvLive ==
  [names   |-> {},
   outputs |-> {<<SongA, SongB>>, <<SongA, SongB, SongC>>},
   launch  |-> {"ready"},
   events  |-> {"eof"},
   crash   |-> FALSE,
   writes  |-> {TRUE}]

InitLive == InitWith(EnvLive)

\* The keys of a user who searches and starts one track and then leaves
\* the playback alone.
KeyLive ==
  \/ KeyNone
  \/ KeyNavigate
  \/ st.playing_index < 0 /\ KeySearch
  \/ st.playing_index < 0 /\ KeyPlay

NextLive ==
  \/ TrackEndCheck
  \/ KeyLive
  \/ Tick
  \/ MpvEmit

\* What a step of the loop or of the clock changes.
loopvars == <<st, mpv, pc>>

SpecLive ==
  /\ InitLive
  /\ [][NextLive]_vars
  /\ WF_loopvars(TrackEndCheck)
  /\ WF_loopvars(KeyLive)
  /\ WF_loopvars(Tick)

\* Search result number i is loaded, a next result exists, the channel is
\* connected and the player has reported the end of the track, within the
\* grace interval or after it.
TrackEnded(i) ==
  /\ Running
  /\ ~st.playing_from_playlist
  /\ st.playing_index = i
  /\ i + 1 < search_count(st)
  /\ mpv.ipc_fd >= 0
  /\ mpv.chan \cap EofKinds # {}

\* C38: when the loaded track ends with reason eof while the channel is
\* connected and a next item exists, the next item is eventually loaded,
\* also when the track ended within the grace interval.
C38_EofEventuallyAdvances ==
  \A i \in 0..1 : TrackEnded(i) ~> (st.playing_index = i + 1)

----------------------------------------------------------------------------
(* The player processes this client launched.                              *)

\* mpv_pid records a process whose socket never appeared: the launch timed
\* out, nothing has terminated the process and nothing has been heard of it.
LaunchOutstanding(m) == m.pid > 0 /\ ~m.sock

\* The Enter key of this step went through mpv_start_if_needed to its fork:
\* no player could be reached through the socket file.
Forks ==
  /\ pc = "input"
  /\ pc' = "check"
  /\ last'.op = "play"
  /\ ~(mpv.sock /\ mpv_connect(mpv).ok)

\* C39: every player process forked by mpv_start_if_needed is the one
\* recorded in mpv_pid or has been terminated: a fork that replaces the
\* record of a launch still outstanding terminates that process first, so
\* that mpv_quit, which kills the recorded process only, leaves none running.
C39_OneLaunchedPlayer ==
  [][(Forks /\ LaunchOutstanding(mpv)) =>
       Positions(last'.sent, "kill SIGTERM") # {}]_vars

----------------------------------------------------------------------------
(* The paused flag and the player's pause state.                           *)

\* A step of the loop during which one player stays connected and serving:
\* every command written in it is delivered to that player.
SamePlayer ==
  /\ pc # pc'
  /\ mpv.ipc_fd >= 0 /\ mpv.up
  /\ mpv'.ipc_fd >= 0 /\ mpv'.up

\* The player toggles its pause state on each cycle-pause command and keeps
\* it across every other command: its pause state differs after the step
\* exactly when the step wrote an odd number of cycle-pause commands.
PlayerToggles ==
  Cardinality(Positions(last'.sent, "cycle pause")) % 2 = 1

\* C40: the local paused flag equals the player's pause state after any
\* sequence of play, next/prev, pause-toggle and stop actions: in a step
\* whose commands reach the player the flag changes exactly when the
\* player's pause state does.
C40_PausedFollowsPlayer ==
  [][SamePlayer => ((st'.paused # st.paused) <=> PlayerToggles)]_vars

=============================================================================
